---- MODULE Spec2Model ----
(***************************************************************************)
(* Model of the privacy-policy analyzer (policy_analyzer.py) and of the    *)
(* privacy-policy scraper (scraper.py).                                    *)
(*                                                                         *)
(* Python strings are TLA+ strings; Len, \o and SubSeq act on them the way *)
(* len(), + and slicing do.  Non-ASCII characters of the source's string   *)
(* literals (emoji, bullets) are written as ASCII tags such as "[pin]".    *)
(***************************************************************************)
EXTENDS Integers, Sequences, FiniteSets, TLC

(***************************************************************************)
(* Bounds of the model.                                                    *)
(***************************************************************************)
\* Number of phrases concatenated into one policy text.
MaxPhrases == 2

(***************************************************************************)
(* State                                                                   *)
(***************************************************************************)
VARIABLES
  bedrock_client,  \* "None" or "client": PolicyAnalyzer.bedrock_client
  op,              \* the method called, "idle" between calls
  args,            \* its arguments (and the policy files it can read)
  backend,         \* what invoke_model does during the call
  ret              \* what the call returned or raised

avars == <<bedrock_client, op, args, backend, ret>>

VARIABLES
  spc,             \* where scrape_company_website stands: idle, find, try, name, done, raised
  site,            \* company_website, with a scheme
  root_kind,       \* how the GET of the root page ended in discovery
  discovered,      \* the candidates in the order discovery found them
  probed,          \* the paths discovery asked for with HEAD
  found_urls,      \* privacy_urls: the candidates _find_privacy_policy_urls returned
  tried,           \* how many candidates the loop has tried
  last_resp,       \* the answer to the last GET of a candidate
  attempts,        \* per candidate tried, whether it passed validation
  fetch_log,       \* the candidates fetched, in order
  last_data,       \* policy_data: the dict of the last attempt
  passed_url,      \* successful_url
  name_resp,       \* the answer to the GET _extract_company_name made
  result           \* the dict scrape_company_website returned

svars == <<spc, site, root_kind, discovered, probed, found_urls, tried,
           last_resp, attempts, fetch_log, last_data, passed_url, name_resp, result>>

VARIABLES
  wpc,             \* per writer, where its save_analysis call stands: idle, stats, write, done
  company,         \* per writer, analysis_data['company_name']
  existing,        \* per writer, analysis_count of the row its SELECT fetched, 0 for None
  db_raised,       \* per writer, whether its call raised
  calls,           \* per company_name, the number of save_analysis calls made with it
  analysis_history,\* the rows of the table analysis_history, in the order of their ids
  platform_stats   \* the rows of the table platform_stats, in the order of their ids

dvars == <<wpc, company, existing, db_raised, calls, analysis_history, platform_stats>>

vars == <<avars, svars, dvars>>

(***************************************************************************)
(* Python built-ins used by the source.                                    *)
(***************************************************************************)
UpperCase == <<"A","B","C","D","E","F","G","H","I","J","K","L","M",
               "N","O","P","Q","R","S","T","U","V","W","X","Y","Z">>
LowerCase == <<"a","b","c","d","e","f","g","h","i","j","k","l","m",
               "n","o","p","q","r","s","t","u","v","w","x","y","z">>

LowerChar(c) ==
  IF \E i \in 1..26 : UpperCase[i] = c
  THEN LowerCase[CHOOSE i \in 1..26 : UpperCase[i] = c]
  ELSE c

\* str.lower(): each character lower-cased, the string taken by halves
RECURSIVE lower(_)
lower(s) ==
  IF Len(s) <= 1 THEN LowerChar(s)
  ELSE lower(SubSeq(s, 1, Len(s) \div 2)) \o lower(SubSeq(s, Len(s) \div 2 + 1, Len(s)))

\* `term in s` for strings: substring containment
In(term, s) ==
  \E i \in 0..(Len(s) - Len(term)) : SubSeq(s, i + 1, i + Len(term)) = term

\* any(term in s for term in terms)
AnyIn(terms, s) == \E i \in 1..Len(terms) : In(terms[i], s)

\* s[:n]
Take(s, n) == SubSeq(s, 1, IF Len(s) < n THEN Len(s) ELSE n)

Max(a, b) == IF a >= b THEN a ELSE b
Min(a, b) == IF a <= b THEN a ELSE b

\* sep.join(items), the list taken by halves
RECURSIVE join(_, _)
join(sep, items) ==
  IF Len(items) = 0 THEN ""
  ELSE IF Len(items) = 1 THEN items[1]
  ELSE join(sep, SubSeq(items, 1, Len(items) \div 2)) \o sep
       \o join(sep, SubSeq(items, Len(items) \div 2 + 1, Len(items)))

\* The total of the amounts a loop adds with +=, the list taken by halves
RECURSIVE Total(_)
Total(xs) ==
  IF Len(xs) = 0 THEN 0
  ELSE IF Len(xs) = 1 THEN xs[1]
  ELSE Total(SubSeq(xs, 1, Len(xs) \div 2)) + Total(SubSeq(xs, Len(xs) \div 2 + 1, Len(xs)))

\* dict.get(key, default)
Get(d, key, default) == IF key \in DOMAIN d THEN d[key] ELSE default

(***************************************************************************)
(* Inputs: policy texts are concatenations of at most MaxPhrases phrases.  *)
(***************************************************************************)
Phrases == <<
  "We SELL biometric data to third-party trackers",
  "We sell biometric data",
  "shared with a third party",
  "selling and sold to Partners",
  "we monitor your GPS geolocation",
  "facial scans kept Indefinitely",
  "GDPR data protection applies",
  "you may delete it",
  "opt-out or unsubscribe by email",
  "photos and messages from your phone",
  "Voice, payment, browsing, cookie, IP Address, device, contact, message, photo, location, PHONE and Email" >>

RECURSIVE JoinPhrases(_)
JoinPhrases(S) ==
  IF S = {} THEN ""
  ELSE LET i == CHOOSE k \in S : \A m \in S : k <= m
           rest == JoinPhrases(S \ {i})
       IN IF rest = "" THEN Phrases[i] ELSE Phrases[i] \o " " \o rest

Texts ==
  { JoinPhrases(S) : S \in { T \in SUBSET (1..Len(Phrases)) : Cardinality(T) <= MaxPhrases } }

Companies == {"Tinder", "Acme"}

(***************************************************************************)
(* PolicyAnalyzer: scoring of raw text                                     *)
(***************************************************************************)
\* The first definition of _calculate_score_from_text in the class body.  The
\* class defines the name a second time further down, and in Python the later
\* definition replaces this one, so no caller ever reaches it.
_calculate_score_from_text_shadowed(text) ==
  LET text_lower == lower(text)
      concerning_terms == <<
        <<"sell", -15>>, <<"advertising", -10>>, <<"marketing", -5>>,
        <<"third party", -10>>, <<"partners", -8>>, <<"affiliate", -8>>,
        <<"indefinitely", -15>>, <<"permanent", -10>>, <<"biometric", -15>>,
        <<"track", -10>>, <<"monitor", -8>>, <<"profile", -5>>,
        <<"share", -5>>, <<"disclose", -8>> >>
      positive_terms == <<
        <<"delete", 5>>, <<"opt out", 8>>, <<"control", 5>>,
        <<"consent", 8>>, <<"privacy", 3>>, <<"secure", 5>>,
        <<"encrypt", 10>>, <<"anonymous", 8>> >>
      impact(terms) == [n \in 1..Len(terms) |->
                          IF In(terms[n][1], text_lower) THEN terms[n][2] ELSE 0]
  IN Max(0, Min(100, 70 + Total(impact(concerning_terms)) + Total(impact(positive_terms))))

\* The score of _calculate_score_from_text before its final clamp.
RawTextScore(policy_text) ==
  LET text_lower == lower(policy_text)
      s0 == 30
      s1 == s0 + IF AnyIn(<<"sell", "selling", "sold">>, text_lower) THEN 25 ELSE 0
      s2 == s1 + IF AnyIn(<<"third party", "third-party", "partners">>, text_lower) THEN 15 ELSE 0
      s3 == s2 + IF AnyIn(<<"track", "tracking", "monitor">>, text_lower) THEN 15 ELSE 0
      s4 == s3 + IF AnyIn(<<"location", "gps", "geolocation">>, text_lower) THEN 10 ELSE 0
      s5 == s4 + IF AnyIn(<<"biometric", "facial", "fingerprint">>, text_lower) THEN 20 ELSE 0
      s6 == s5 + IF AnyIn(<<"indefinitely", "permanently", "forever">>, text_lower) THEN 15 ELSE 0
      s7 == s6 - IF AnyIn(<<"gdpr", "data protection", "user rights">>, text_lower) THEN 10 ELSE 0
      s8 == s7 - IF AnyIn(<<"delete", "deletion", "remove data">>, text_lower) THEN 5 ELSE 0
      s9 == s8 - IF AnyIn(<<"opt out", "opt-out", "unsubscribe">>, text_lower) THEN 5 ELSE 0
  IN s9

\* Mutant: the first definition of the class body is the one in force.
_calculate_score_from_text_first(policy_text) ==
  _calculate_score_from_text_shadowed(policy_text)

\* Mutant: the final clamp is left out.
_calculate_score_from_text_unclamped(policy_text) == RawTextScore(policy_text)

\* Mutant: a score out of the range is wrapped into it.
_calculate_score_from_text_wrapped(policy_text) == RawTextScore(policy_text) % 101

\* The definition in force (the second one of the class body).
_calculate_score_from_text(policy_text) ==
  Min(Max(RawTextScore(policy_text), 0), 100)

(***************************************************************************)
(* Results of calls: a value returned, or an exception raised.             *)
(***************************************************************************)
Ok(v) == [raised |-> FALSE, val |-> v]
Raised == [raised |-> TRUE, val |-> [error |-> "Exception"]]

(***************************************************************************)
(* PolicyAnalyzer: structured policies                                     *)
(***************************************************************************)
mock_policies ==
     "Tinder" :> [
       text |-> "Tinder collects personal data including photos, messages, location, and usage patterns...",
       data_types |-> <<"Photos", "Messages", "Location", "Device Info", "Usage Patterns", "Swipe History">>,
       sharing |-> "Shares with Match Group companies and advertising partners",
       retention |-> "Retains data indefinitely unless deleted" ]
  @@ "Facebook" :> [
       text |-> "Facebook collects extensive data including posts, likes, friends, and browsing activity...",
       data_types |-> <<"Posts", "Photos", "Friends List", "Likes", "Location", "Browsing History", "Ad Interactions">>,
       sharing |-> "Shares with Meta companies, advertisers, and third-party apps",
       retention |-> "Retains most data permanently" ]
  @@ "Finn.no" :> [
       text |-> "Finn.no collects personal information to provide marketplace services, including contact details, location for listings, and usage data. As a Norwegian company, Finn follows strict GDPR compliance and privacy-by-design principles.",
       data_types |-> <<"Name & Contact Info", "Location Data", "Listing Information", "Search History", "Device Information", "Usage Analytics">>,
       sharing |-> "Limited sharing with service providers and advertisers. No data sold to third parties",
       retention |-> "Data retained as long as account is active, deleted upon request" ]
  @@ "Instagram" :> [
       text |-> "Instagram collects photos, videos, messages, and extensive behavioral data for advertising purposes...",
       data_types |-> <<"Photos", "Videos", "Stories", "Messages", "Location", "Browsing Behavior", "Ad Interactions">>,
       sharing |-> "Shares extensively with Meta companies and advertising partners",
       retention |-> "Retains data indefinitely for business purposes" ]
  @@ "TikTok" :> [
       text |-> "TikTok collects video content, biometric data, device information, and behavioral patterns...",
       data_types |-> <<"Videos", "Biometric Data", "Voice Data", "Location", "Device Info", "Browsing History", "Contacts">>,
       sharing |-> "Shares with ByteDance companies and may transfer data internationally",
       retention |-> "Retains data for business operations and legal compliance" ]
  @@ "WhatsApp" :> [
       text |-> "WhatsApp collects metadata, contact information, and usage data while providing end-to-end encryption for messages...",
       data_types |-> <<"Phone Number", "Contacts", "Profile Info", "Message Metadata", "Location", "Device Info">>,
       sharing |-> "Shares metadata with Meta companies for advertising on other platforms",
       retention |-> "Messages stored on device, metadata retained by company" ]
_get_mock_policy(platform) ==
  Get(mock_policies, platform,
      [ text |-> platform \o " privacy policy...",
        data_types |-> <<"Personal Info", "Usage Data", "Device Info">>,
        sharing |-> "Shares with partners",
        retention |-> "Varies by data type" ])

\* files: the JSON files of data/policies, platform name -> policy dict
_load_policy(files, platform) ==
  IF platform \in DOMAIN files THEN files[platform] ELSE _get_mock_policy(platform)

\* Mutant: the joined list is returned, empty or not.
_extract_concerns_bare(policy) ==
  LET c1 == IF In("indefinitely", lower(Get(policy, "retention", "")))
            THEN <<"[pin] Data retained indefinitely">> ELSE <<>>
      c2 == IF In("advertising", lower(Get(policy, "sharing", "")))
            THEN <<"[pin] Shared with advertisers">> ELSE <<>>
      c3 == IF Len(Get(policy, "data_types", <<>>)) > 5
            THEN <<"[pin] Collects extensive personal data">> ELSE <<>>
  IN join("\n", c1 \o c2 \o c3)

_extract_concerns(policy) ==
  LET c1 == IF In("indefinitely", lower(Get(policy, "retention", "")))
            THEN <<"[pin] Data retained indefinitely">> ELSE <<>>
      c2 == IF In("advertising", lower(Get(policy, "sharing", "")))
            THEN <<"[pin] Shared with advertisers">> ELSE <<>>
      c3 == IF Len(Get(policy, "data_types", <<>>)) > 5
            THEN <<"[pin] Collects extensive personal data">> ELSE <<>>
      concerns == c1 \o c2 \o c3
  IN IF Len(concerns) > 0 THEN join("\n", concerns) ELSE "No major red flags detected"

_extract_positives(policy) ==
  "[ok] Allows data deletion requests\n[ok] Provides privacy controls\n[ok] GDPR compliant"

\* The score of _calculate_score before its final clamp.
StructuredScore(policy) ==
  LET s0 == 70
      s1 == s0 - IF In("indefinitely", lower(Get(policy, "retention", ""))) THEN 15 ELSE 0
      s2 == s1 - IF Len(Get(policy, "data_types", <<>>)) > 6 THEN 10 ELSE 0
      s3 == s2 - IF In("advertising", lower(Get(policy, "sharing", ""))) THEN 10 ELSE 0
  IN s3

\* Mutant: the data-type deduction uses the threshold of _extract_concerns.
_calculate_score_five(policy) ==
  LET s0 == 70
      s1 == s0 - IF In("indefinitely", lower(Get(policy, "retention", ""))) THEN 15 ELSE 0
      s2 == s1 - IF Len(Get(policy, "data_types", <<>>)) > 5 THEN 10 ELSE 0
      s3 == s2 - IF In("advertising", lower(Get(policy, "sharing", ""))) THEN 10 ELSE 0
  IN Max(0, Min(100, s3))

_calculate_score(policy) == Max(0, Min(100, StructuredScore(policy)))

_generate_mock_summary(platform, policy) ==
  LET data_types == join(", ", Take(Get(policy, "data_types", <<>>), 3))
  IN "**" \o platform \o "** collects: " \o data_types \o ", and more.\n\n"
     \o "**Usage**: Primarily for service improvement, personalization, and targeted advertising.\n\n"
     \o "**Sharing**: " \o Get(policy, "sharing", "Shares with partners and affiliates") \o "\n\n"
     \o "**Your Rights**: You can request data deletion, but some data may be retained for legal purposes."

(***************************************************************************)
(* The model backend.  invoke_model is opaque: it raises, answers with a   *)
(* body the response parsing cannot read, or answers with a text.  The     *)
(* prompts only reach the backend and are not modelled.                    *)
(***************************************************************************)
Responses == {
  "",
  "I cannot help with that.",
  "1. Most harmful practices\nThey sell everything\n2. Worst data\nEmail and phone\n3. Recommendations\nOpt out now" }

NoCall == [kind |-> "nocall", text |-> ""]

Backend ==
  {[kind |-> "raise", text |-> ""], [kind |-> "malformed", text |-> ""]}
  \cup {[kind |-> "text", text |-> r] : r \in Responses}

\* invoke_model(...) followed by json.loads(response['body'].read()) and
\* result['content'][0]['text']
InvokeModelText(b) == IF b.kind = "text" THEN Ok(b.text) ELSE Raised

\* Mutant: _call_bedrock without its try/except.
_call_bedrock_uncaught(b, policy_text, platform) == InvokeModelText(b)

_call_bedrock(b, policy_text, platform) ==
  LET r == InvokeModelText(b)
  IN IF r.raised
     THEN Ok(_generate_mock_summary(platform, [text |-> policy_text]))
     ELSE r

(***************************************************************************)
(* More str methods, used when a backend answer is parsed.                 *)
(***************************************************************************)
IsSpace(c) == c \in {" ", "\n", "\t", "\r", "\f"}

RECURSIVE lstrip(_)
lstrip(s) ==
  IF s # "" /\ IsSpace(SubSeq(s, 1, 1)) THEN lstrip(SubSeq(s, 2, Len(s))) ELSE s

RECURSIVE rstrip(_)
rstrip(s) ==
  IF s # "" /\ IsSpace(SubSeq(s, Len(s), Len(s)))
  THEN rstrip(SubSeq(s, 1, Len(s) - 1)) ELSE s

\* str.strip()
strip(s) == rstrip(lstrip(s))

\* str.split(sep)
RECURSIVE split(_, _)
split(s, sep) ==
  IF ~In(sep, s) THEN <<s>>
  ELSE LET At(k) == SubSeq(s, k, k + Len(sep) - 1) = sep
           i == CHOOSE k \in 1..(Len(s) - Len(sep) + 1) :
                  At(k) /\ \A m \in 1..(k - 1) : ~At(m)
       IN <<SubSeq(s, 1, i - 1)>> \o split(SubSeq(s, i + Len(sep), Len(s)), sep)

(***************************************************************************)
(* PolicyAnalyzer: analysis of raw text                                    *)
(***************************************************************************)
keywords == <<
  <<"email", "Email Address">>, <<"phone", "Phone Number">>,
  <<"location", "Location Data">>, <<"photo", "Photos">>,
  <<"message", "Messages">>, <<"contact", "Contacts">>,
  <<"device", "Device Information">>, <<"ip address", "IP Address">>,
  <<"cookie", "Cookies">>, <<"browsing", "Browsing History">>,
  <<"payment", "Payment Information">>, <<"biometric", "Biometric Data">>,
  <<"voice", "Voice Data">>, <<"video", "Video Data">>,
  <<"search", "Search History">>, <<"preference", "User Preferences">> >>

\* Mutant: the list is returned without its cut to 10.
_extract_data_types_from_text_uncapped(text) ==
  LET text_lower == lower(text)
      found == SelectSeq(keywords, LAMBDA kw : In(kw[1], text_lower))
  IN [n \in 1..Len(found) |-> found[n][2]]

_extract_data_types_from_text(text) ==
  LET text_lower == lower(text)
      found == SelectSeq(keywords, LAMBDA kw : In(kw[1], text_lower))
  IN Take([n \in 1..Len(found) |-> found[n][2]], 10)

\* The concerns list built by _analyze_scraped_text.
ScrapedConcerns(policy_text) ==
  LET text_lower == lower(policy_text)
      If(terms, label) == IF AnyIn(terms, text_lower) THEN <<label>> ELSE <<>>
  IN If(<<"sell", "selling", "sold">>, "may sell your personal data")
     \o If(<<"third party", "third-party", "partners">>, "shares data with third parties")
     \o If(<<"track", "tracking", "monitor">>, "tracks your online behavior")
     \o If(<<"location", "gps", "geolocation">>, "collects location data")
     \o If(<<"biometric", "facial", "fingerprint">>, "collects biometric data")
     \o If(<<"indefinitely", "permanently", "forever">>, "retains data indefinitely")

\* The data_types list built by _analyze_scraped_text.
ScrapedDataTypes(policy_text) ==
  LET text_lower == lower(policy_text)
      If(terms, label) == IF AnyIn(terms, text_lower) THEN <<label>> ELSE <<>>
  IN If(<<"email", "e-mail">>, "email addresses")
     \o If(<<"phone", "telephone", "mobile">>, "phone numbers")
     \o If(<<"photo", "image", "picture">>, "photos and images")
     \o If(<<"message", "chat", "communication">>, "messages and communications")
     \o If(<<"browsing", "website", "web">>, "browsing history")

\* Mutant: the prose lists every concern found.
_analyze_scraped_text_all(policy_text, company_name) ==
  LET concerns == ScrapedConcerns(policy_text)
      data_types == ScrapedDataTypes(policy_text)
  IN [ harmful_points |->
         IF Len(concerns) > 0
         THEN company_name \o " " \o join(", ", concerns)
              \o ". This could impact your privacy and data security."
         ELSE company_name \o " collects personal data for business purposes. The extent of data collection and sharing practices may vary.",
       worst_data |->
         IF Len(data_types) > 0
         THEN "Most concerning data includes: " \o join(", ", Take(data_types, 3))
              \o ". This information could be used for profiling and targeting."
         ELSE "Personal information and usage data that could be used for profiling and advertising purposes.",
       recommendation |->
         IF Len(concerns) >= 3
         THEN "Be very cautious with " \o company_name \o ". Consider limiting the personal information you provide and review privacy settings regularly."
         ELSE IF Len(concerns) >= 1
         THEN "Review " \o company_name \o "'s privacy settings and be selective about what information you share."
         ELSE "While " \o company_name \o " appears to have standard privacy practices, always review settings and limit unnecessary data sharing." ]

_analyze_scraped_text(policy_text, company_name) ==
  LET concerns == ScrapedConcerns(policy_text)
      data_types == ScrapedDataTypes(policy_text)
  IN [ harmful_points |->
         IF Len(concerns) > 0
         THEN company_name \o " " \o join(", ", Take(concerns, 3))
              \o ". This could impact your privacy and data security."
         ELSE company_name \o " collects personal data for business purposes. The extent of data collection and sharing practices may vary.",
       worst_data |->
         IF Len(data_types) > 0
         THEN "Most concerning data includes: " \o join(", ", Take(data_types, 3))
              \o ". This information could be used for profiling and targeting."
         ELSE "Personal information and usage data that could be used for profiling and advertising purposes.",
       recommendation |->
         IF Len(concerns) >= 3
         THEN "Be very cautious with " \o company_name \o ". Consider limiting the personal information you provide and review privacy settings regularly."
         ELSE IF Len(concerns) >= 1
         THEN "Review " \o company_name \o "'s privacy settings and be selective about what information you share."
         ELSE "While " \o company_name \o " appears to have standard privacy practices, always review settings and limit unnecessary data sharing." ]

\* The branch the loop over the answer's lines takes on a stripped line: the
\* section a heading line opens, "None" for a line that opens none.
SectionOpened(line) ==
  LET low == lower(line)
  IN IF In("1.", line) \/ In("harmful", low) \/ In("concerning", low) THEN "harmful"
     ELSE IF In("2.", line) \/ In("data", low) \/ In("collect", low) THEN "data"
     ELSE IF In("3.", line) \/ In("recommend", low) THEN "recommendation"
     ELSE "None"

\* Mutant: the texts parsed from the answer are returned as they are, empty
\* or not.
_extract_harmful_with_bedrock_bare(b, policy_text, company_name) ==
  LET prompt == "Analyze this privacy policy for " \o company_name
                \o " and identify the most concerning aspects for users:\n\nPrivacy Policy Text:\n"
                \o Take(policy_text, 8000)
                \o "\n\nPlease provide:\n1. The 3 most harmful/concerning practices (be specific and direct)\n2. The worst types of data they collect that users should worry about\n3. Specific recommendations for users to protect themselves\n\nFocus only on genuinely concerning practices that could harm user privacy or security. Be concise and actionable."
      response == _call_bedrock(b, prompt, "Unknown")
  IN IF response.raised
     THEN _analyze_scraped_text(policy_text, company_name)
     ELSE
       LET raw == split(response.val, "\n")
           lines == [n \in 1..Len(raw) |-> strip(raw[n])]
           opened == [n \in 1..Len(raw) |-> SectionOpened(lines[n])]
           \* current_section when the loop reaches line n: the section of the
           \* last heading above it
           current_section == [n \in 1..Len(raw) |->
             LET above == {k \in 1..(n - 1) : opened[k] # "None"}
             IN IF above = {} THEN "None"
                ELSE opened[CHOOSE k \in above : \A j \in above : j <= k]]
           \* what the loop has added to the text of a section
           collected(section) ==
             LET added == SelectSeq([n \in 1..Len(raw) |-> n], LAMBDA n :
                            /\ opened[n] = "None"
                            /\ lines[n] # ""
                            /\ current_section[n] = section)
             IN join("", [k \in 1..Len(added) |-> lines[added[k]] \o " "])
           harmful_points == Take(strip(collected("harmful")), 500)
           worst_data == Take(strip(collected("data")), 300)
           recommendation == Take(strip(collected("recommendation")), 400)
       IN [ harmful_points |-> harmful_points,
            worst_data |-> worst_data,
            recommendation |-> recommendation ]

\* The definition in force (the second one of the class body): it asks
\* _call_bedrock, which handles a backend failure itself and then returns
\* the mock summary, and parses whatever text comes back.
_extract_harmful_with_bedrock(b, policy_text, company_name) ==
  LET prompt == "Analyze this privacy policy for " \o company_name
                \o " and identify the most concerning aspects for users:\n\nPrivacy Policy Text:\n"
                \o Take(policy_text, 8000)
                \o "\n\nPlease provide:\n1. The 3 most harmful/concerning practices (be specific and direct)\n2. The worst types of data they collect that users should worry about\n3. Specific recommendations for users to protect themselves\n\nFocus only on genuinely concerning practices that could harm user privacy or security. Be concise and actionable."
      response == _call_bedrock(b, prompt, "Unknown")
  IN IF response.raised
     THEN _analyze_scraped_text(policy_text, company_name)
     ELSE
       LET raw == split(response.val, "\n")
           lines == [n \in 1..Len(raw) |-> strip(raw[n])]
           opened == [n \in 1..Len(raw) |-> SectionOpened(lines[n])]
           \* current_section when the loop reaches line n: the section of the
           \* last heading above it
           current_section == [n \in 1..Len(raw) |->
             LET above == {k \in 1..(n - 1) : opened[k] # "None"}
             IN IF above = {} THEN "None"
                ELSE opened[CHOOSE k \in above : \A j \in above : j <= k]]
           \* what the loop has added to the text of a section
           collected(section) ==
             LET added == SelectSeq([n \in 1..Len(raw) |-> n], LAMBDA n :
                            /\ opened[n] = "None"
                            /\ lines[n] # ""
                            /\ current_section[n] = section)
             IN join("", [k \in 1..Len(added) |-> lines[added[k]] \o " "])
           harmful_points == Take(strip(collected("harmful")), 500)
           worst_data == Take(strip(collected("data")), 300)
           recommendation == Take(strip(collected("recommendation")), 400)
       IN [ harmful_points |->
              IF harmful_points = ""
              THEN company_name \o " has concerning data collection and sharing practices that may impact your privacy."
              ELSE harmful_points,
            worst_data |->
              IF worst_data = ""
              THEN "Personal information, usage data, and potentially sensitive behavioral data."
              ELSE worst_data,
            recommendation |->
              IF recommendation = ""
              THEN "Review " \o company_name \o "'s privacy settings and limit data sharing where possible."
              ELSE recommendation ]

harmful_data ==
     "Tinder" :> [
       harmful_points |-> "Tinder collects your exact location, biometric data from photos, and tracks your swiping patterns to create detailed behavioral profiles. They share this intimate data with Match Group's 45+ companies and keep it indefinitely even after you delete your account.",
       worst_data |-> "Your precise location, facial recognition data, and detailed records of who you're attracted to - creating a comprehensive profile of your romantic preferences and physical movements.",
       recommendation |-> "Turn off location services, avoid uploading clear face photos, and regularly delete your account if you're not actively using it." ]
  @@ "Facebook" :> [
       harmful_points |-> "Facebook tracks your activity across the entire internet, builds shadow profiles of non-users through your contacts, and uses psychological manipulation techniques to increase engagement. They collect data even when you're not using Facebook.",
       worst_data |-> "Complete browsing history across all websites, real-time location tracking, and psychological profiling data used to influence your behavior and political views.",
       recommendation |-> "Use Facebook in a separate browser, turn off all location tracking, and regularly review what data they have on you." ]
  @@ "Instagram" :> [
       harmful_points |-> "Instagram analyzes your photos using AI to detect your emotions, relationships, and lifestyle patterns. They track how long you look at each post to manipulate your feed and keep you addicted to the platform.",
       worst_data |-> "AI analysis of your photos revealing personal relationships, mental health patterns, and detailed behavioral data used for algorithmic manipulation.",
       recommendation |-> "Limit photo uploads with people in them, turn off activity tracking, and use time limits to avoid algorithmic manipulation." ]
  @@ "TikTok" :> [
       harmful_points |-> "TikTok collects biometric data including face and voice prints, accesses your clipboard without permission, and may share data with the Chinese government. They track your behavior even when the app is closed.",
       worst_data |-> "Biometric identifiers (face, voice, keystroke patterns), clipboard contents, and detailed behavioral data that could be accessed by foreign governments.",
       recommendation |-> "Avoid using TikTok for sensitive communications, turn off microphone access, and consider the geopolitical risks of your data being in China." ]
  @@ "WhatsApp" :> [
       harmful_points |-> "While messages are encrypted, WhatsApp collects extensive metadata about who you talk to, when, and for how long. This metadata is shared with Facebook for advertising and can reveal your social network and behavior patterns.",
       worst_data |-> "Complete social network mapping, communication patterns, and location data that reveals your daily routines and relationships.",
       recommendation |-> "Use Signal for sensitive conversations, turn off read receipts and last seen, and limit location sharing." ]
  @@ "Finn.no" :> [
       harmful_points |-> "Finn.no tracks your search history and browsing patterns to build detailed profiles of your interests, income level, and life situation. This data is shared with advertising partners and could be used for price discrimination.",
       worst_data |-> "Detailed financial profiling based on what you search for and buy, revealing your economic situation and personal needs.",
       recommendation |-> "Use private browsing mode, avoid searching for sensitive items when not serious about buying, and regularly clear your search history." ]

_extract_harmful_fallback(policy, platform) ==
  Get(harmful_data, platform,
      [ harmful_points |-> platform \o " collects extensive personal data and shares it with third parties for advertising purposes.",
        worst_data |-> "Personal information and behavioral data used for profiling and targeting.",
        recommendation |-> "Review privacy settings and limit data sharing where possible." ])

(***************************************************************************)
(* PolicyAnalyzer: chat                                                    *)
(***************************************************************************)
_generate_mock_chat_response(question, platform, policy) ==
  LET question_lower == lower(question)
      dts == Get(policy, "data_types", <<>>)
      risky_data == SelectSeq(dts, LAMBDA d :
                      AnyIn(<<"location", "biometric", "message", "contact">>, lower(d)))
  IN IF In("risky", question_lower) \/ In("dangerous", question_lower)
     THEN "[alert] The riskiest data " \o platform \o " collects includes: "
          \o join(", ", Take(risky_data, 3))
          \o ". This data can be used for detailed profiling and tracking."
     ELSE IF In("protect", question_lower) \/ In("privacy", question_lower)
     THEN "[shield] To protect your privacy on " \o platform
          \o ":\n* Review and adjust privacy settings\n* Limit location sharing\n* Be selective about what you post\n* Regularly review connected apps\n* Consider deleting old data"
     ELSE IF In("delete", question_lower)
     THEN "[phone] To delete your " \o platform
          \o " data:\n* Go to account settings\n* Look for 'Delete Account' or 'Data & Privacy'\n* Download your data first if needed\n* Note: Some data may be retained for legal purposes"
     ELSE IF In("share", question_lower) \/ In("third party", question_lower)
     THEN "[link] " \o platform \o " shares your data with: "
          \o Get(policy, "sharing", "various partners")
          \o ". This means your information may be used beyond just the platform itself."
     ELSE "[bot] Great question! Based on " \o platform \o "'s policy, they collect "
          \o ToString(Len(dts)) \o " types of data. The main concerns are: "
          \o join(", ", Take(Get(policy, "concerns", <<>>), 2))
          \o ". Would you like me to explain any specific aspect?"

_call_bedrock_chat(b, question, policy) ==
  LET r == InvokeModelText(b)
  IN IF r.raised
     THEN Ok(_generate_mock_chat_response(question, Get(policy, "platform", "this platform"), policy))
     ELSE r

\* client: whether self.bedrock_client is set
chat_with_ai(client, b, files, question, platform) ==
  LET policy == _load_policy(files, platform)
  IN IF client
     THEN _call_bedrock_chat(b, question, policy)
     ELSE Ok(_generate_mock_chat_response(question, platform, policy))

(***************************************************************************)
(* PolicyAnalyzer: the public analysis methods                             *)
(***************************************************************************)
summarize_policy(client, b, files, platform) ==
  LET policy == _load_policy(files, platform)
      summary_text == IF client
                      THEN IF "text" \in DOMAIN policy
                           THEN _call_bedrock(b, policy["text"], platform)
                           ELSE Raised
                      ELSE Ok(_generate_mock_summary(platform, policy))
  IN IF summary_text.raised THEN Raised
     ELSE Ok([ key_points |-> summary_text.val,
               concerns |-> _extract_concerns(policy),
               positives |-> _extract_positives(policy),
               score |-> _calculate_score(policy),
               data_types |-> Get(policy, "data_types", <<>>) ])

summarize_policy_from_text(client, b, policy_text, platform) ==
  LET summary_text == IF client
                      THEN _call_bedrock(b, policy_text, platform)
                      ELSE Ok(_generate_mock_summary(platform, [text |-> policy_text]))
      data_types == _extract_data_types_from_text(policy_text)
      mock_policy == [ text |-> policy_text,
                       data_types |-> data_types,
                       sharing |-> "Shares with partners and third parties",
                       retention |-> "Retains data as described in policy" ]
  IN IF summary_text.raised THEN Raised
     ELSE Ok([ key_points |-> summary_text.val,
               concerns |-> _extract_concerns(mock_policy),
               positives |-> _extract_positives(mock_policy),
               score |-> _calculate_score_from_text(policy_text),
               data_types |-> data_types ])

get_harmful_points(client, b, files, platform) ==
  LET policy == _load_policy(files, platform)
  IN IF client /\ "text" \notin DOMAIN policy THEN Raised
     ELSE LET harmful_analysis ==
                IF client
                THEN _extract_harmful_with_bedrock(b, policy["text"], platform)
                ELSE _extract_harmful_fallback(policy, platform)
          IN Ok([ score |-> _calculate_score(policy),
                  harmful_points |-> Get(harmful_analysis, "harmful_points", ""),
                  worst_data |-> Get(harmful_analysis, "worst_data", ""),
                  recommendation |-> Get(harmful_analysis, "recommendation", "") ])

\* Mutant: without a backend the score of the generic analysis is returned.
analyze_scraped_policy_generic_score(client, b, policy_text, company_name) ==
  LET harmful_analysis ==
        IF client
        THEN _extract_harmful_with_bedrock(b, policy_text, company_name)
        ELSE _analyze_scraped_text(policy_text, company_name)
      score == IF client THEN _calculate_score_from_text(policy_text) ELSE 50
  IN Ok([ score |-> score,
          harmful_points |-> Get(harmful_analysis, "harmful_points", ""),
          worst_data |-> Get(harmful_analysis, "worst_data", ""),
          recommendation |-> Get(harmful_analysis, "recommendation", ""),
          company_name |-> company_name,
          analysis_type |-> "live_scraping" ])

analyze_scraped_policy(client, b, policy_text, company_name) ==
  LET harmful_analysis ==
        IF client
        THEN _extract_harmful_with_bedrock(b, policy_text, company_name)
        ELSE _analyze_scraped_text(policy_text, company_name)
      score == _calculate_score_from_text(policy_text)
  IN Ok([ score |-> score,
          harmful_points |-> Get(harmful_analysis, "harmful_points", ""),
          worst_data |-> Get(harmful_analysis, "worst_data", ""),
          recommendation |-> Get(harmful_analysis, "recommendation", ""),
          company_name |-> company_name,
          analysis_type |-> "live_scraping" ])

get_generic_analysis(company_name) ==
  Ok([ score |-> 50,
       harmful_points |-> company_name \o " likely collects personal data including contact information, usage patterns, and device information. Without access to their privacy policy, the full extent of data collection is unknown.",
       worst_data |-> "Contact information, usage patterns, and potentially location data - though specifics are unavailable without policy access.",
       recommendation |-> "Contact " \o company_name \o " directly for their privacy policy, or look for privacy information in their app or website footer.",
       company_name |-> company_name,
       analysis_type |-> "generic" ])

(***************************************************************************)
(* PolicyAnalyzer.assess_risk_from_text                                    *)
(***************************************************************************)
assess_risk_from_text(policy_text, platform) ==
  LET score == _calculate_score_from_text(policy_text)
  IN Ok([ overall |-> ToString(100 - score) \o "%",
          trend |-> IF score < 50 THEN "[up] High"
                    ELSE IF score < 70 THEN "[right] Medium" ELSE "[down] Low",
          sharing |-> IF In("advertising", lower(policy_text)) \/ In("partners", lower(policy_text))
                      THEN "High" ELSE "Medium",
          control |-> IF score < 60 THEN "Limited" ELSE "Moderate",
          analysis |-> "Based on our AI analysis of the live policy text, " \o platform \o " has "
                       \o (IF score < 60 THEN "significant" ELSE "moderate")
                       \o " privacy implications. The policy contains "
                       \o (IF score < 50 THEN "concerning" ELSE "standard")
                       \o " data collection practices." ])

(***************************************************************************)
(* Inputs of the analyzer                                                  *)
(***************************************************************************)
Platforms == {"Tinder", "TikTok", "Finn.no", "Facebook", "Instagram", "WhatsApp",
              "Signal", "Acme"}

\* The cases of test_chat_functionality: a question, the platform it is
\* asked about and the keywords the test looks for in the answer.
test_cases == {
  [question |-> "What is the riskiest data they collect?", platform |-> "TikTok",
   expected_keywords |-> {"risky", "data", "biometric", "location"}],
  [question |-> "Do they track my location?", platform |-> "Facebook",
   expected_keywords |-> {"location", "track", "GPS"}],
  [question |-> "Who do they share my data with?", platform |-> "Instagram",
   expected_keywords |-> {"share", "third party", "partners"}],
  [question |-> "What are my privacy rights?", platform |-> "WhatsApp",
   expected_keywords |-> {"rights", "control", "delete"}],
  [question |-> "How can I delete my account?", platform |-> "Tinder",
   expected_keywords |-> {"delete", "account", "settings"}],
  [question |-> "Do they collect biometric data?", platform |-> "TikTok",
   expected_keywords |-> {"biometric", "fingerprint", "face"}],
  [question |-> "Random question about something not in policy", platform |-> "Facebook",
   expected_keywords |-> {"information", "policy", "ask"}] }

Questions ==
  {t.question : t \in test_cases}
  \cup {"Is it risky?", "How do I protect my Privacy and delete data?"}

DataTypeLabels == <<"Phone Number", "Contacts", "Profile Info", "Messages", "Location",
                    "Device Info", "Usage Data", "Photos", "Payment Info", "Voice Data">>

\* Largest number of data types in a policy file.
MaxDataTypes == 7

NoFiles == [p \in {} |-> p]

\* Policy files of data/policies: a file may leave out any key but text.
FilePolicies ==
  { [text |-> "Signal collects your phone number and contacts.",
     platform |-> "Signal",
     concerns |-> <<"Phone number required", "Contact discovery">>] @@ r @@ s @@ d :
      r \in {NoFiles, [retention |-> "Backups are kept INDEFINITELY"]},
      s \in {NoFiles, [sharing |-> "Shared with Advertising networks"]},
      d \in {NoFiles} \cup {[data_types |-> SubSeq(DataTypeLabels, 1, n)] : n \in 5..MaxDataTypes} }

\* The files that matter to a call about platform: only the platform's own
\* file is opened.
PolicyFileSets(platform) ==
  {NoFiles} \cup
  (IF platform = "Signal" THEN {[p \in {"Signal"} |-> f] : f \in FilePolicies} ELSE {})

(***************************************************************************)
(* PolicyScraper                                                           *)
(***************************************************************************)
\* More str methods and urllib.parse, used by the scraper.
StartsWith(s, prefix) == Len(s) >= Len(prefix) /\ SubSeq(s, 1, Len(prefix)) = prefix

\* s.find(sub) + 1: the position of the first occurrence of sub, 0 when none
Find(sub, s) ==
  IF In(sub, s)
  THEN CHOOSE k \in 1..(Len(s) - Len(sub) + 1) :
         /\ SubSeq(s, k, k + Len(sub) - 1) = sub
         /\ \A m \in 1..(k - 1) : SubSeq(s, m, m + Len(sub) - 1) # sub
  ELSE 0

\* str.replace(old, new)
RECURSIVE replace(_, _, _)
replace(s, old, new) ==
  LET k == Find(old, s)
  IN IF k = 0 THEN s
     ELSE SubSeq(s, 1, k - 1) \o new \o replace(SubSeq(s, k + Len(old), Len(s)), old, new)

UpperChar(c) ==
  IF \E i \in 1..26 : LowerCase[i] = c
  THEN UpperCase[CHOOSE i \in 1..26 : LowerCase[i] = c]
  ELSE c

\* str.capitalize()
capitalize(s) ==
  IF s = "" THEN "" ELSE UpperChar(SubSeq(s, 1, 1)) \o lower(SubSeq(s, 2, Len(s)))

\* Whether print(s) can write s: the encoder of sys.stdout rejects a lone
\* surrogate with UnicodeEncodeError.  "[surrogate]" stands for one.
Printable(s) == ~In("[surrogate]", s)

\* Whether urlparse(url) raises ValueError: a netloc with one of the brackets
\* of an IPv6 address and not the other.
UrlparseRaises(url) ==
  LET rest == SubSeq(url, Find("://", url) + 3, Len(url))
      j == Find("/", rest)
      netloc == IF j = 0 THEN rest ELSE SubSeq(rest, 1, j - 1)
  IN In("[", netloc) # In("]", netloc)

\* urlparse(url).scheme and .netloc, for URLs that have a scheme
urlparse(url) ==
  LET k == Find("://", url)
      rest == SubSeq(url, k + 3, Len(url))
      j == Find("/", rest)
  IN [ scheme |-> SubSeq(url, 1, k - 1),
       netloc |-> IF j = 0 THEN rest ELSE SubSeq(rest, 1, j - 1) ]

\* urljoin(base, href) for a base without a path
urljoin(base, href) ==
  IF In("://", href) THEN href
  ELSE IF StartsWith(href, "/") THEN base \o href
  ELSE base \o "/" \o href

KNOWN_PRIVACY_URLS ==
     "spotify.com" :> "https://www.spotify.com/legal/privacy-policy/"
  @@ "netflix.com" :> "https://help.netflix.com/legal/privacy"
  @@ "github.com" :> "https://docs.github.com/en/site-policy/privacy-policies/github-privacy-statement"
  @@ "airbnb.com" :> "https://www.airbnb.com/terms/privacy_policy"
  @@ "discord.com" :> "https://discord.com/privacy"

PRIVACY_URL_PATTERNS == <<
  "/privacy", "/privacy-policy", "/privacy-notice", "/privacy.html",
  "/legal/privacy", "/legal/privacy-policy", "/terms/privacy", "/policy/privacy",
  "/about/privacy", "/help/privacy", "/support/privacy", "/info/privacy",
  "/personvern", "/datenschutz", "/confidentialite" >>

\* "confidentialit[e]" stands for the keyword with an accented last letter.
PRIVACY_KEYWORDS == <<
  "privacy", "policy", "personvern", "datenschutz",
  "confidentialit[e]", "privacidad", "privacidade" >>

legal_patterns == <<"/legal/privacy-policy", "/legal/privacy", "/help/privacy", "/support/privacy">>

\* list membership
InList(x, list) == \E i \in 1..Len(list) : list[i] = x

url_relevance(url) ==
  LET url_lower == lower(url)
  IN IF In("privacy-policy", url_lower) THEN 0
     ELSE IF In("privacy", url_lower) THEN 1
     ELSE 2

\* Mutant: the list is returned in discovery order.
sort_by_relevance_skipped(urls) == urls

\* list.sort(key=url_relevance): the elements in ascending order of their
\* keys, and, the sort of Python being stable, elements of equal keys in the
\* order they had.  The keys are 0, 1 and 2.
sort_by_relevance(urls) ==
  LET with_key(k) == SelectSeq(urls, LAMBDA url : url_relevance(url) = k)
  IN with_key(0) \o with_key(1) \o with_key(2)

\* Whether a link of the page is kept: a keyword in its href or its text.
IsPrivacyLink(link) ==
  \E i \in 1..Len(PRIVACY_KEYWORDS) :
    In(PRIVACY_KEYWORDS[i], lower(link.href)) \/ In(PRIVACY_KEYWORDS[i], lower(link.text))

\* Mutant: every item is appended, held already or not.
ExtendNew_all(list, items) == list \o [n \in 1..Len(items) |-> items[n]]

\* The loop `for x in items: if x not in list: list.append(x)`: an item is
\* appended when neither the list the loop starts with nor an earlier item
\* holds it.
ExtendNew(list, items) ==
  LET fresh(n) == ~InList(items[n], list) /\ \A m \in 1..(n - 1) : items[m] # items[n]
      kept == SelectSeq([n \in 1..Len(items) |-> n], fresh)
  IN list \o [k \in 1..Len(kept) |-> items[kept[k]]]

\* Methods 1 and 3: the loop over the links of the page (or of its footer).
\* The links with a keyword, in document order, each joined to the base URL
\* and appended unless the list holds it.
ScanLinks(privacy_urls, links, base_url) ==
  LET kept == SelectSeq(links, IsPrivacyLink)
  IN ExtendNew(privacy_urls, [n \in 1..Len(kept) |-> urljoin(base_url, kept[n].href)])

\* Methods 2 and 2.5: the loop of HEAD requests over a list of path patterns.
\* heads: the answer of the site to a HEAD of each path, 200, another status
\* or an exception.  The paths answered with 200, in the order of the list,
\* each appended to the base URL and to the candidates unless they hold it.
ProbePatterns(privacy_urls, patterns, base_url, heads) ==
  LET answered == SelectSeq(patterns, LAMBDA pattern : heads[pattern] = "200")
  IN ExtendNew(privacy_urls, [n \in 1..Len(answered) |-> base_url \o answered[n]])

\* The candidates that come from the table of known URLs.
KnownCandidates(website_url) ==
  LET domain == replace(urlparse(website_url).netloc, "www.", "")
  IN IF domain \in DOMAIN KNOWN_PRIVACY_URLS
     THEN <<KNOWN_PRIVACY_URLS[domain]>> ELSE <<>>

\* root: the answer to the GET of website_url, an exception (a network
\* error, a timeout, a status raise_for_status rejects) or a page with its
\* links in document order, each marked when it lies in the footer.
\* Returns the candidates, with the list in discovery order before the sort
\* and the paths probed with HEAD.
_find_privacy_policy_urls(website_url, root, heads) ==
  LET known == KnownCandidates(website_url)
  IN IF root.kind # "ok"
     THEN [urls |-> <<>>, discovered |-> known, probed |-> <<>>]
     ELSE
       LET base_url == urlparse(website_url).scheme \o "://" \o urlparse(website_url).netloc
           m1 == ScanLinks(known, root.links, base_url)
           m2 == ProbePatterns(m1, PRIVACY_URL_PATTERNS, base_url, heads)
           m25 == ProbePatterns(m2, legal_patterns, base_url, heads)
           footer == SelectSeq(root.links, LAMBDA l : l.footer)
           m3 == IF Len(footer) > 0 THEN ScanLinks(m25, footer, base_url) ELSE m25
       IN [urls |-> Take(sort_by_relevance(m3), 5),
           discovered |-> m3,
           probed |-> PRIVACY_URL_PATTERNS \o legal_patterns]

(***************************************************************************)
(* Page texts.  The text extracted from a fetched page is a string `body`  *)
(* followed by `pad` filler characters "x": a text of 10,000 characters is *)
(* written without spelling it out.  Length, slicing, lower-casing and     *)
(* substring search are computed on this form.                             *)
(***************************************************************************)
Plain(s) == [body |-> s, pad |-> 0]

\* len(text)
TextLen(text) == Len(text.body) + text.pad

\* text[:n]
TextTake(text, n) ==
  IF n <= Len(text.body) THEN [body |-> SubSeq(text.body, 1, n), pad |-> 0]
  ELSE [body |-> text.body, pad |-> Min(text.pad, n - Len(text.body))]

RECURSIVE Filler(_)
Filler(n) == IF n = 0 THEN "" ELSE "x" \o Filler(n - 1)

\* term in text.lower(): a match lies in the body or runs into the filler
InText(term, text) ==
  In(term, lower(text.body) \o Filler(Min(text.pad, Len(term))))

\* Python's None
None == "<None>"

privacy_indicators == <<"privacy", "personal data", "information", "collect", "use", "share">>

\* Mutant: the indicator check comes before the length check.
_scrape_privacy_content_indicator_first(privacy_url, resp) ==
  IF resp.kind # "ok"
  THEN [scraped |-> FALSE, error |-> resp.msg,
        text |-> Plain("Failed to scrape " \o privacy_url)]
  ELSE IF ~\E i \in 1..Len(privacy_indicators) : InText(privacy_indicators[i], resp.text)
  THEN [scraped |-> FALSE, error |-> "Content doesn't appear to be a privacy policy",
        text |-> TextTake(resp.text, 500)]
  ELSE IF TextLen(resp.text) < 500
  THEN [scraped |-> FALSE, error |-> "Content too short to be a privacy policy",
        text |-> TextTake(resp.text, 500)]
  ELSE [scraped |-> TRUE, text |-> TextTake(resp.text, 10000),
        length |-> TextLen(resp.text), url |-> privacy_url]

\* resp: the answer to the GET of privacy_url, an exception with its message
\* (a network error, a timeout, a status raise_for_status rejects, a parse
\* error) or a page, given by the text extracted from it with its whitespace
\* collapsed.
_scrape_privacy_content(privacy_url, resp) ==
  IF resp.kind # "ok"
  THEN [scraped |-> FALSE, error |-> resp.msg,
        text |-> Plain("Failed to scrape " \o privacy_url)]
  ELSE IF TextLen(resp.text) < 500
  THEN [scraped |-> FALSE, error |-> "Content too short to be a privacy policy",
        text |-> TextTake(resp.text, 500)]
  ELSE IF ~\E i \in 1..Len(privacy_indicators) : InText(privacy_indicators[i], resp.text)
  THEN [scraped |-> FALSE, error |-> "Content doesn't appear to be a privacy policy",
        text |-> TextTake(resp.text, 500)]
  ELSE [scraped |-> TRUE, text |-> TextTake(resp.text, 10000),
        length |-> TextLen(resp.text), url |-> privacy_url]

\* " [en] " and " [em] " stand for the en-dash and em-dash separators.
title_separators == <<" | ", " - ", " [en] ", " [em] ">>

\* title_resp: the answer to the GET of website_url, an exception or a page
\* with its <title> text (None when the page has no title).  A URL urlparse
\* rejects gives the name of the outer except, before any GET.
_extract_company_name(website_url, title_resp) ==
  IF UrlparseRaises(website_url) THEN "Unknown Company" ELSE
  LET domain == replace(replace(replace(replace(urlparse(website_url).netloc,
                  "www.", ""), ".com", ""), ".no", ""), ".org", "")
      company_name == capitalize(split(domain, ".")[1])
  IN IF title_resp.kind # "ok" \/ title_resp.title = None THEN company_name
     ELSE LET title_text == strip(title_resp.title)
              found == {i \in 1..Len(title_separators) : In(title_separators[i], title_text)}
          IN IF found # {}
             THEN LET first == CHOOSE i \in found : \A j \in found : i <= j
                  IN strip(split(title_text, title_separators[first])[1])
             ELSE strip(title_text)

\* company_website with a scheme (lines 132-134)
NormalizeWebsite(company_website) ==
  IF StartsWith(company_website, "http://") \/ StartsWith(company_website, "https://")
  THEN company_website
  ELSE "https://" \o company_website

\* privacy_urls[:3]: the candidates the loop of scrape_company_website tries
CandidatesToTry(privacy_urls) == Take(privacy_urls, 3)

\* Mutant: the loop has no break.
LoopEnds_nobreak(policy_data, attempted, privacy_urls) ==
  attempted = Len(CandidatesToTry(privacy_urls))

\* Whether the loop is over after an attempt: the break on success, or the
\* end of the slice.
LoopEnds(policy_data, attempted, privacy_urls) ==
  \/ Get(policy_data, "scraped", FALSE)
  \/ attempted = Len(CandidatesToTry(privacy_urls))

\* The dict returned when discovery found no candidate (lines 140-148).
NoUrlResult(company_website, company_name) ==
  [ company_website |-> company_website,
    company_name |-> company_name,
    privacy_url |-> None,
    scraped |-> FALSE,
    error |-> "No privacy policy URL found",
    text |-> Plain("Could not locate privacy policy on this website") ]

\* The dict returned by the except of scrape_company_website (lines 184-193)
\* for the exception with message e.
ErrorResult(company_website, company_name, e) ==
  [ company_website |-> company_website,
    company_name |-> company_name,
    privacy_url |-> None,
    scraped |-> FALSE,
    error |-> e,
    text |-> Plain("Failed to analyze " \o company_website) ]

\* Mutant: the dict returned lists only the candidates the loop could try.
ScrapeResult_tried(company_website, company_name, privacy_urls, policy_data, successful_url) ==
  LET no_data == DOMAIN policy_data = {}   \* `not policy_data`
      data == IF no_data
              THEN [scraped |-> FALSE, error |-> "No privacy policy URLs accessible",
                    text |-> Plain("")]
              ELSE policy_data
      url == IF no_data
             THEN (IF Len(privacy_urls) > 0 THEN privacy_urls[1] ELSE None)
             ELSE successful_url
  IN [ company_website |-> company_website,
       company_name |-> company_name,
       privacy_url |-> url,
       scraped |-> Get(data, "scraped", FALSE),
       text |-> Get(data, "text", Plain("")),
       error |-> Get(data, "error", None),
       found_urls |-> CandidatesToTry(privacy_urls) ]

\* The dict returned after the loop (lines 165-182); scraped_at, the time of
\* the call, is left out.
ScrapeResult(company_website, company_name, privacy_urls, policy_data, successful_url) ==
  LET no_data == DOMAIN policy_data = {}   \* `not policy_data`
      data == IF no_data
              THEN [scraped |-> FALSE, error |-> "No privacy policy URLs accessible",
                    text |-> Plain("")]
              ELSE policy_data
      url == IF no_data
             THEN (IF Len(privacy_urls) > 0 THEN privacy_urls[1] ELSE None)
             ELSE successful_url
  IN [ company_website |-> company_website,
       company_name |-> company_name,
       privacy_url |-> url,
       scraped |-> Get(data, "scraped", FALSE),
       text |-> Get(data, "text", Plain("")),
       error |-> Get(data, "error", None),
       found_urls |-> privacy_urls ]

(***************************************************************************)
(* Inputs of the scraper: the sites asked for and what the network answers *)
(***************************************************************************)
Websites == {"spotify.com", "https://www.netflix.com", "https://www.Example.com/",
             "http://example.org", "https://discord.com",
             "https://[", "[surrogate].com"}

\* The links of a root page, in document order.
PageLinks == <<
  [href |-> "/about", text |-> "About us", footer |-> FALSE],
  [href |-> "/legal/cookie-policy", text |-> "Cookies", footer |-> TRUE],
  [href |-> "/Privacy", text |-> "PRIVACY", footer |-> TRUE],
  [href |-> "/privacy-policy", text |-> "Privacy Policy", footer |-> FALSE],
  [href |-> "/privacy-policy", text |-> "Privacy", footer |-> TRUE],
  [href |-> "https://legal.example.com/terms", text |-> "Terms and Policy", footer |-> FALSE],
  [href |-> "privacy-policy.html", text |-> "Personvern", footer |-> TRUE] >>

\* Largest number of links on a root page.
MaxLinks == 6

RootResponses ==
  {[kind |-> "raise", links |-> <<>>]}
  \cup {[kind |-> "ok", links |-> SubSeq(PageLinks, 1, Min(n, Len(PageLinks)))] : n \in 0..MaxLinks}

AllPatterns ==
  {PRIVACY_URL_PATTERNS[i] : i \in 1..Len(PRIVACY_URL_PATTERNS)}
  \cup {legal_patterns[i] : i \in 1..Len(legal_patterns)}

\* A site answers 200 on the paths of ok, raises on those of raising, and
\* answers 404 on the others.
Heads(ok, raising) ==
  [p \in AllPatterns |-> IF p \in ok THEN "200" ELSE IF p \in raising THEN "raise" ELSE "404"]

NoHeads == Heads({}, {})

HeadBehaviours == {
  NoHeads,
  Heads({}, AllPatterns),
  Heads({"/privacy", "/legal/privacy-policy", "/help/privacy"}, {"/privacy-policy"}),
  Heads({"/personvern", "/datenschutz"}, {}),
  Heads(AllPatterns, {}) }

\* Answers to the GET of a candidate.
ContentResponses == {
  [kind |-> "raise", msg |-> "404 Client Error: Not Found for url", text |-> Plain("")],
  [kind |-> "ok", msg |-> "", text |-> [body |-> "Contact page", pad |-> 0]],
  [kind |-> "ok", msg |-> "", text |-> [body |-> "We collect data", pad |-> 484]],
  [kind |-> "ok", msg |-> "", text |-> [body |-> "Contact page", pad |-> 600]],
  [kind |-> "ok", msg |-> "", text |-> [body |-> "We collect data", pad |-> 485]],
  [kind |-> "ok", msg |-> "", text |-> [body |-> "Privacy Policy. We USE and Share data", pad |-> 12000]] }

\* Answers to the GET of the root page made for the company name.
TitleResponses == {
  [kind |-> "raise", title |-> None],
  [kind |-> "ok", title |-> None],
  [kind |-> "ok", title |-> " Acme Corp - Home | Welcome "],
  [kind |-> "ok", title |-> "Acme | Music [en] Home"],
  [kind |-> "ok", title |-> "Coca-Cola [em] Refresh"],
  [kind |-> "ok", title |-> "Acme"] }

\* _extract_company_name asks for the root page unless urlparse raised.
NoRequest == [kind |-> "none", title |-> None]

TitleResponsesOf(website_url) ==
  IF UrlparseRaises(website_url) THEN {NoRequest} ELSE TitleResponses


(***************************************************************************)
(* scrape_company_website as a state machine: one step per network         *)
(* exchange.                                                               *)
(***************************************************************************)
InitScraper ==
  /\ spc = "idle"
  /\ site = ""
  /\ root_kind = "none"
  /\ discovered = <<>>
  /\ probed = <<>>
  /\ found_urls = <<>>
  /\ tried = 0
  /\ last_resp = <<>>
  /\ attempts = <<>>
  /\ fetch_log = <<>>
  /\ last_data = <<>>
  /\ passed_url = None
  /\ name_resp = <<>>
  /\ result = <<>>


(***************************************************************************)
(* DatabaseManager.save_analysis under concurrent callers.  Every call     *)
(* opens its own connections to the one database file.  A statement that   *)
(* writes and the commit that follows it are one step: SQLite lets one     *)
(* connection write at a time.  The SELECT of update_platform_stats is     *)
(* a step of its own: it runs outside any transaction and holds no lock    *)
(* once its row is fetched.  avg_risk_score and last_analyzed are left out.*)
(***************************************************************************)
\* Largest number of concurrent save_analysis calls.
MaxWriters == 3

Writers == 1..MaxWriters

\* Largest number of save_analysis calls of a sequence of calls.
MaxSaves == 4

\* analysis_data.get('company_name', '')
CompanyNames == {"", "Acme", "Tinder"}

PlatformNames == CompanyNames \ {""}

\* SELECT * FROM platform_stats WHERE platform_name = ?
RowsNamed(table, platform_name) ==
  SelectSeq(table, LAMBDA row : row.platform_name = platform_name)

\* fetchone()[2]: analysis_count of the first row with the name, 0 when
\* fetchone() is None.  A row that exists has a count of 1 or more.
AnalysisCount(table, platform_name) ==
  LET rows == RowsNamed(table, platform_name)
  IN IF rows = <<>> THEN 0 ELSE rows[1].analysis_count

\* init_database on a new file: the tables exist and are empty.
InitDatabase ==
  /\ wpc = [w \in Writers |-> "idle"]
  /\ company = [w \in Writers |-> ""]
  /\ existing = [w \in Writers |-> 0]
  /\ db_raised = [w \in Writers |-> FALSE]
  /\ calls = [name \in CompanyNames |-> 0]
  /\ analysis_history = <<>>
  /\ platform_stats = <<>>

\* save_analysis up to its call of update_platform_stats: the INSERT into
\* analysis_history and its commit.
SaveAnalysis(w) ==
  /\ wpc[w] = "idle"
  /\ \E company_name \in CompanyNames :
       /\ company' = [company EXCEPT ![w] = company_name]
       /\ calls' = [calls EXCEPT ![company_name] = @ + 1]
       /\ analysis_history' = Append(analysis_history, [company_name |-> company_name])
  /\ wpc' = [wpc EXCEPT ![w] = "stats"]
  /\ UNCHANGED <<existing, db_raised, platform_stats, avars, svars>>

\* Mutant: update_platform_stats without its return on an empty name.
SelectPlatformStats_unguarded(w) ==
  /\ wpc[w] = "stats"
  /\ existing' = [existing EXCEPT ![w] = AnalysisCount(platform_stats, company[w])]
  /\ wpc' = [wpc EXCEPT ![w] = "write"]
  /\ UNCHANGED <<company, db_raised, calls, analysis_history, platform_stats, avars, svars>>

\* update_platform_stats: the return on an empty name, or the SELECT and
\* fetchone.
SelectPlatformStats(w) ==
  /\ wpc[w] = "stats"
  /\ IF company[w] = ""
     THEN /\ wpc' = [wpc EXCEPT ![w] = "done"]
          /\ UNCHANGED existing
     ELSE /\ existing' = [existing EXCEPT ![w] = AnalysisCount(platform_stats, company[w])]
          /\ wpc' = [wpc EXCEPT ![w] = "write"]
  /\ UNCHANGED <<company, db_raised, calls, analysis_history, platform_stats, avars, svars>>

\* update_platform_stats: the UPDATE of the rows with the name from the row
\* fetched, or the INSERT of a first row, which the UNIQUE constraint on
\* platform_name rejects with sqlite3.IntegrityError when the name has a row
\* by now; then the commit.
WritePlatformStats(w) ==
  /\ wpc[w] = "write"
  /\ IF existing[w] # 0
     THEN /\ platform_stats' =
               [n \in 1..Len(platform_stats) |->
                  IF platform_stats[n].platform_name = company[w]
                  THEN [platform_stats[n] EXCEPT !.analysis_count = existing[w] + 1]
                  ELSE platform_stats[n]]
          /\ UNCHANGED db_raised
     ELSE IF RowsNamed(platform_stats, company[w]) # <<>>
     THEN /\ db_raised' = [db_raised EXCEPT ![w] = TRUE]
          /\ UNCHANGED platform_stats
     ELSE /\ platform_stats' = Append(platform_stats,
                                      [platform_name |-> company[w], analysis_count |-> 1])
          /\ UNCHANGED db_raised
  /\ wpc' = [wpc EXCEPT ![w] = "done"]
  /\ UNCHANGED <<company, existing, calls, analysis_history, avars, svars>>

NextDatabase ==
  \E w \in Writers :
    \/ SaveAnalysis(w)
    \/ SelectPlatformStats(w)
    \/ WritePlatformStats(w)

\* A sequence of calls: save_analysis is called when no call is in progress.
SaveAnalysisAlone(w) ==
  /\ \A v \in Writers : wpc[v] = "idle"
  /\ Len(analysis_history) < MaxSaves
  /\ SaveAnalysis(w)

\* The caller has the id of the row, or the exception; the call's frame is
\* gone.
SaveReturns(w) ==
  /\ wpc[w] = "done"
  /\ wpc' = [wpc EXCEPT ![w] = "idle"]
  /\ company' = [company EXCEPT ![w] = ""]
  /\ existing' = [existing EXCEPT ![w] = 0]
  /\ db_raised' = [db_raised EXCEPT ![w] = FALSE]
  /\ UNCHANGED <<calls, analysis_history, platform_stats, avars, svars>>

NextSequential ==
  \E w \in Writers :
    \/ SaveAnalysisAlone(w)
    \/ SelectPlatformStats(w)
    \/ WritePlatformStats(w)
    \/ SaveReturns(w)

(***************************************************************************)
(* The analyzer as a state machine: one call at a time; the caller takes   *)
(* the result and the analyzer is idle again.                              *)
(***************************************************************************)
client == bedrock_client = "client"

\* invoke_model is reached only when a client is configured.
BackendOf(c) == IF c = "client" THEN Backend ELSE {NoCall}

InitAnalyzer ==
  /\ bedrock_client \in {"None", "client"}
  /\ op = "idle"
  /\ args = <<>>
  /\ backend = NoCall
  /\ ret = <<>>

SummarizePolicy ==
  /\ op = "idle"
  /\ \E platform \in Platforms : \E files \in PolicyFileSets(platform) :
     \E b \in BackendOf(bedrock_client) :
       /\ op' = "summarize_policy"
       /\ args' = [platform |-> platform, files |-> files]
       /\ backend' = b
       /\ ret' = summarize_policy(client, b, files, platform)
  /\ UNCHANGED <<bedrock_client, svars, dvars>>

SummarizePolicyFromText ==
  /\ op = "idle"
  /\ \E policy_text \in Texts, platform \in Companies, b \in BackendOf(bedrock_client) :
       /\ op' = "summarize_policy_from_text"
       /\ args' = [policy_text |-> policy_text, platform |-> platform]
       /\ backend' = b
       /\ ret' = summarize_policy_from_text(client, b, policy_text, platform)
  /\ UNCHANGED <<bedrock_client, svars, dvars>>

AssessRiskFromText ==
  /\ op = "idle"
  /\ \E policy_text \in Texts, platform \in Companies :
       /\ op' = "assess_risk_from_text"
       /\ args' = [policy_text |-> policy_text, platform |-> platform]
       /\ backend' = NoCall
       /\ ret' = assess_risk_from_text(policy_text, platform)
  /\ UNCHANGED <<bedrock_client, svars, dvars>>

ChatWithAi ==
  /\ op = "idle"
  /\ \E platform \in Platforms : \E files \in PolicyFileSets(platform) :
     \E question \in Questions, b \in BackendOf(bedrock_client) :
       /\ op' = "chat_with_ai"
       /\ args' = [question |-> question, platform |-> platform, files |-> files]
       /\ backend' = b
       /\ ret' = LET response == chat_with_ai(client, b, files, question, platform)
                 IN IF response.raised THEN response
                    ELSE Ok([response |-> response.val])
  /\ UNCHANGED <<bedrock_client, svars, dvars>>

GetHarmfulPoints ==
  /\ op = "idle"
  /\ \E platform \in Platforms : \E files \in PolicyFileSets(platform) :
     \E b \in BackendOf(bedrock_client) :
       /\ op' = "get_harmful_points"
       /\ args' = [platform |-> platform, files |-> files]
       /\ backend' = b
       /\ ret' = get_harmful_points(client, b, files, platform)
  /\ UNCHANGED <<bedrock_client, svars, dvars>>

AnalyzeScrapedPolicy ==
  /\ op = "idle"
  /\ \E policy_text \in Texts, company_name \in Companies, b \in BackendOf(bedrock_client) :
       /\ op' = "analyze_scraped_policy"
       /\ args' = [policy_text |-> policy_text, company_name |-> company_name]
       /\ backend' = b
       /\ ret' = analyze_scraped_policy(client, b, policy_text, company_name)
  /\ UNCHANGED <<bedrock_client, svars, dvars>>

GetGenericAnalysis ==
  /\ op = "idle"
  /\ \E company_name \in Companies :
       /\ op' = "get_generic_analysis"
       /\ args' = [company_name |-> company_name]
       /\ backend' = NoCall
       /\ ret' = get_generic_analysis(company_name)
  /\ UNCHANGED <<bedrock_client, svars, dvars>>

\* The caller has the result; the call's frame is gone.
Respond ==
  /\ op # "idle"
  /\ op' = "idle"
  /\ args' = <<>>
  /\ backend' = NoCall
  /\ ret' = <<>>
  /\ UNCHANGED <<bedrock_client, svars, dvars>>

NextAnalyzer ==
  \/ SummarizePolicy
  \/ SummarizePolicyFromText
  \/ AssessRiskFromText
  \/ ChatWithAi
  \/ GetHarmfulPoints
  \/ AnalyzeScrapedPolicy
  \/ GetGenericAnalysis
  \/ Respond

\* The analyzer alone: the scraper stays idle.
InitAnalyzerAlone == InitAnalyzer /\ InitScraper /\ InitDatabase

SpecAnalyzer == InitAnalyzerAlone /\ [][NextAnalyzer]_vars

(***************************************************************************)
(* scrape_company_website: the steps                                       *)
(***************************************************************************)
\* The call: the print of the argument, which is outside the try, and the
\* normalisation of the argument.
ScrapeCompanyWebsite ==
  /\ spc = "idle"
  /\ \E w \in Websites :
       IF Printable(w)
       THEN site' = NormalizeWebsite(w) /\ spc' = "find"
       ELSE site' = w /\ spc' = "raised"
  /\ UNCHANGED <<root_kind, discovered, probed, found_urls, tried, last_resp,
                 attempts, fetch_log, last_data, passed_url, name_resp, result,
                 avars, dvars>>

\* Step 1: discovery.  An empty list ends the call with the no-URL result,
\* which needs the company name.
FindPrivacyPolicyUrls ==
  /\ spc = "find"
  /\ ~UrlparseRaises(site)
  /\ \E root \in RootResponses :
     \E heads \in (IF root.kind = "ok" THEN HeadBehaviours ELSE {NoHeads}) :
       LET found == _find_privacy_policy_urls(site, root, heads)
       IN /\ root_kind' = root.kind
          /\ found_urls' = found.urls
          /\ discovered' = found.discovered
          /\ probed' = found.probed
          /\ spc' = IF Len(found.urls) = 0 THEN "name" ELSE "try"
  /\ UNCHANGED <<site, tried, last_resp, attempts, fetch_log,
                 last_data, passed_url, name_resp, result, avars, dvars>>

\* Step 1 on a URL urlparse rejects: the ValueError leaves
\* _find_privacy_policy_urls before any request and is caught by the except
\* of scrape_company_website, which needs the company name.
FindRaises ==
  /\ spc = "find"
  /\ UrlparseRaises(site)
  /\ spc' = "name"
  /\ UNCHANGED <<site, root_kind, discovered, probed, found_urls, tried, last_resp,
                 attempts, fetch_log, last_data, passed_url, name_resp, result,
                 avars, dvars>>

\* Step 2: one pass of the loop over the first candidates.
TryCandidate ==
  /\ spc = "try"
  /\ tried < Len(CandidatesToTry(found_urls))
  /\ \E resp \in ContentResponses :
       LET url == CandidatesToTry(found_urls)[tried + 1]
           data == _scrape_privacy_content(url, resp)
       IN /\ last_resp' = resp
          /\ last_data' = data
          /\ tried' = tried + 1
          /\ fetch_log' = Append(fetch_log, url)
          /\ attempts' = Append(attempts, Get(data, "scraped", FALSE))
          /\ passed_url' = IF Get(data, "scraped", FALSE) THEN url ELSE passed_url
          /\ spc' = IF LoopEnds(data, tried + 1, found_urls) THEN "name" ELSE "try"
  /\ UNCHANGED <<site, root_kind, discovered, probed, found_urls, name_resp, result,
                 avars, dvars>>

\* Step 3: the company name, and the dict returned.
ExtractCompanyName ==
  /\ spc = "name"
  /\ \E title_resp \in TitleResponsesOf(site) :
       LET company_name == _extract_company_name(site, title_resp)
       IN /\ name_resp' = title_resp
          /\ result' = IF UrlparseRaises(site)
                       THEN ErrorResult(site, company_name, "Invalid IPv6 URL")
                       ELSE IF Len(found_urls) = 0
                       THEN NoUrlResult(site, company_name)
                       ELSE ScrapeResult(site, company_name, found_urls,
                                         last_data, passed_url)
  /\ spc' = "done"
  /\ UNCHANGED <<site, root_kind, discovered, probed, found_urls, tried,
                 last_resp, attempts, fetch_log, last_data, passed_url, avars, dvars>>

\* The caller has the result or the exception; the call's frame is gone.
ScrapeReturns ==
  /\ spc \in {"done", "raised"}
  /\ spc' = "idle"
  /\ site' = ""
  /\ root_kind' = "none"
  /\ discovered' = <<>>
  /\ probed' = <<>>
  /\ found_urls' = <<>>
  /\ tried' = 0
  /\ last_resp' = <<>>
  /\ attempts' = <<>>
  /\ fetch_log' = <<>>
  /\ last_data' = <<>>
  /\ passed_url' = None
  /\ name_resp' = <<>>
  /\ result' = <<>>
  /\ UNCHANGED <<avars, dvars>>

NextScraper ==
  \/ ScrapeCompanyWebsite
  \/ FindPrivacyPolicyUrls
  \/ FindRaises
  \/ TryCandidate
  \/ ExtractCompanyName
  \/ ScrapeReturns

\* The scraper alone: the analyzer stays idle, without a backend.
InitScraperAlone == InitScraper /\ InitAnalyzer /\ InitDatabase /\ bedrock_client = "None"

SpecScraper == InitScraperAlone /\ [][NextScraper]_vars

\* The database alone: the analyzer and the scraper stay idle.
InitDatabaseAlone == InitDatabase /\ InitAnalyzer /\ InitScraper /\ bedrock_client = "None"

SpecDatabase == InitDatabaseAlone /\ [][NextDatabase]_vars

\* The database under one caller at a time.
SpecDatabaseSequential == InitDatabaseAlone /\ [][NextSequential]_vars

(***************************************************************************)
(* Properties of the analyzer                                              *)
(***************************************************************************)
\* Operations whose result carries the raw-text score, and the structured one.
RawScoreOps == {"analyze_scraped_policy", "summarize_policy_from_text"}
StructuredScoreOps == {"summarize_policy", "get_harmful_points"}

\* C1: the score returned for any text (raw-text scoring) and for any
\* structured policy (structured scoring) is an integer between 0 and 100.
C1_ScoreInRange ==
  (op \in RawScoreOps \cup StructuredScoreOps /\ ~ret.raised) =>
    ret.val.score \in 0..100

\* C1 witness: a text whose unclamped sum exceeds 100 was scored, and the
\* score returned is 100.
C1_Witness ==
  /\ op = "analyze_scraped_policy"
  /\ RawTextScore(args.policy_text) > 100
  /\ ret.val.score = 100

\* C2: with a configured backend whose invoke_model raises, analyze_scraped_policy
\* returns the harmful_points, worst_data and recommendation it returns for the
\* same text and company when no backend is configured.
C2_FailedBackendSameAsAbsent ==
  (op = "analyze_scraped_policy" /\ bedrock_client = "client" /\ backend.kind = "raise") =>
    LET absent == _analyze_scraped_text(args.policy_text, args.company_name)
    IN /\ ret.val.harmful_points = absent.harmful_points
       /\ ret.val.worst_data = absent.worst_data
       /\ ret.val.recommendation = absent.recommendation

BackendOps == {"summarize_policy", "summarize_policy_from_text", "chat_with_ai",
               "get_harmful_points", "analyze_scraped_policy"}

\* C3: with a configured backend whose invoke_model raises, each of the five
\* backend-using methods returns a result; the exception does not reach the caller.
C3_BackendErrorNeverPropagates ==
  (op \in BackendOps /\ bedrock_client = "client" /\ backend.kind = "raise") =>
    ~ret.raised

\* C3 witness: summarize_policy returned the mock summary after invoke_model raised.
C3_Witness ==
  /\ op = "summarize_policy"
  /\ bedrock_client = "client"
  /\ backend.kind = "raise"
  /\ ~ret.raised
  /\ ret.val.key_points = _generate_mock_summary(args.platform, <<>>)

\* The groups of terms of the raw-text scoring rule, as the claim states them.
PenaltyGroups == [
  sell |-> {"sell", "selling", "sold"},
  third |-> {"third party", "third-party", "partners"},
  tracking |-> {"track", "tracking", "monitor"},
  location |-> {"location", "gps", "geolocation"},
  biometric |-> {"biometric", "facial", "fingerprint"},
  retention |-> {"indefinitely", "permanently", "forever"} ]

BonusGroups == [
  gdpr |-> {"gdpr", "data protection", "user rights"},
  deletion |-> {"delete", "deletion", "remove data"},
  optout |-> {"opt out", "opt-out", "unsubscribe"} ]

Weight == [ sell |-> 25, third |-> 15, tracking |-> 15, location |-> 10,
            biometric |-> 20, retention |-> 15,
            gdpr |-> -10, deletion |-> -5, optout |-> -5 ]

\* The groups with a term occurring in text, case-insensitively.
Matched(groups, text) ==
  { g \in DOMAIN groups : \E term \in groups[g] : In(term, lower(text)) }

MatchedPenalties == [t \in Texts |-> Matched(PenaltyGroups, t)]
MatchedBonuses == [t \in Texts |-> Matched(BonusGroups, t)]

RECURSIVE SumWeights(_)
SumWeights(G) ==
  IF G = {} THEN 0
  ELSE LET g == CHOOSE x \in G : TRUE IN Weight[g] + SumWeights(G \ {g})

ClaimedScore(text) ==
  LET raw == 30 + SumWeights(MatchedPenalties[text] \cup MatchedBonuses[text])
  IN IF raw < 0 THEN 0 ELSE IF raw > 100 THEN 100 ELSE raw

\* C4: the raw-text score is clamp(30 + the weights of the matched groups, 0, 100),
\* each group counted once; a text matching only sell, third party and biometric
\* scores 90, and a text matching only gdpr and delete scores 15.
C4_RawTextScoreFormula ==
  (op \in RawScoreOps /\ ~ret.raised) =>
    LET t == args.policy_text
    IN /\ ret.val.score = ClaimedScore(t)
       /\ (MatchedPenalties[t] = {"sell", "third", "biometric"} /\ MatchedBonuses[t] = {})
            => ret.val.score = 90
       /\ (MatchedPenalties[t] = {} /\ MatchedBonuses[t] = {"gdpr", "deletion"})
            => ret.val.score = 15

\* C4 witness: a text matching exactly sell (by three of its terms), third
\* party and biometric was scored 90.
C4_Witness ==
  /\ op = "analyze_scraped_policy"
  /\ MatchedPenalties[args.policy_text] = {"sell", "third", "biometric"}
  /\ MatchedBonuses[args.policy_text] = {}
  /\ In("selling", lower(args.policy_text))
  /\ In("sold", lower(args.policy_text))
  /\ ret.val.score = 90

\* int(s[:-1]) of a percentage such as "45%"
Digits == <<"0", "1", "2", "3", "4", "5", "6", "7", "8", "9">>
RECURSIVE ParseInt(_)
ParseInt(s) ==
  IF s = "" THEN 0
  ELSE 10 * ParseInt(SubSeq(s, 1, Len(s) - 1))
       + (CHOOSE d \in 0..9 : Digits[d + 1] = SubSeq(s, Len(s), Len(s)))
Percent(s) == ParseInt(SubSeq(s, 1, Len(s) - 1))

TrendSeverity(trend) ==
  IF In("High", trend) THEN 3 ELSE IF In("Medium", trend) THEN 2 ELSE 1
ControlSeverity(control) == IF control = "Limited" THEN 2 ELSE 1

\* C5: in assess_risk_from_text, a text matching a superset of the penalty groups
\* of another text (same bonus groups) gets no lower 'overall' percentage and no
\* less severe 'trend' or 'control' than the other.
C5_MorePenaltiesNotLessRisk ==
  (op = "assess_risk_from_text") =>
    \A t2 \in Texts :
      (/\ MatchedBonuses[t2] = MatchedBonuses[args.policy_text]
       /\ MatchedPenalties[t2] \subseteq MatchedPenalties[args.policy_text]) =>
        LET other == assess_risk_from_text(t2, args.platform).val
        IN /\ Percent(ret.val.overall) >= Percent(other.overall)
           /\ TrendSeverity(ret.val.trend) >= TrendSeverity(other.trend)
           /\ ControlSeverity(ret.val.control) >= ControlSeverity(other.control)

(***************************************************************************)
(* Properties of the scraper                                               *)
(***************************************************************************)
\* The tier of a URL as the claims name it: 0 with 'privacy-policy', 1 with
\* 'privacy' only, 2 otherwise (letters compared without case).
Tier(url) ==
  IF In("privacy-policy", lower(url)) THEN 0
  ELSE IF In("privacy", lower(url)) THEN 1 ELSE 2

\* The position of x in a list without duplicates.
Pos(x, list) == CHOOSE i \in 1..Len(list) : list[i] = x

DiscoveryDone == spc \in {"try", "name", "done"}

\* C6: in the list discovery returns, the URLs with 'privacy-policy' come before
\* those with 'privacy' only, which come before the others, and the URLs of one
\* tier are in the order of their first discovery.
C6_CandidatesTieredAndStable ==
  DiscoveryDone =>
    /\ \A i \in 1..Len(found_urls) : InList(found_urls[i], discovered)
    /\ \A i, j \in 1..Len(found_urls) :
         i < j => /\ Tier(found_urls[i]) <= Tier(found_urls[j])
                  /\ Tier(found_urls[i]) = Tier(found_urls[j])
                       => Pos(found_urls[i], discovered) < Pos(found_urls[j], discovered)

\* C6 witness: a returned list with the three tiers, two URLs of one tier, and
\* an order that is not the discovery order.
C6_Witness ==
  /\ DiscoveryDone
  /\ {Tier(found_urls[i]) : i \in 1..Len(found_urls)} = {0, 1, 2}
  /\ \E i, j \in 1..Len(found_urls) : i < j /\ Tier(found_urls[i]) = Tier(found_urls[j])
  /\ found_urls # Take(discovered, Len(found_urls))

\* C7: when the root page was fetched and the domain of the site is in the table
\* of known URLs, the first candidate returned is the URL of the table.
C7_KnownUrlRanksFirst ==
  (DiscoveryDone /\ root_kind = "ok" /\ KnownCandidates(site) # <<>>) =>
    /\ Len(found_urls) > 0
    /\ found_urls[1] = KnownCandidates(site)[1]

\* C8: when the fetch of the root page fails, discovery keeps the candidate of
\* the known table and probes the conventional paths, and the no-URL failure is
\* reported only when discovery had no candidate at all.
C8_RootFailureOnlyDropsItsStep ==
  /\ (DiscoveryDone /\ root_kind = "raise") =>
       /\ \A i \in 1..Len(KnownCandidates(site)) : InList(KnownCandidates(site)[i], found_urls)
       /\ probed = PRIVACY_URL_PATTERNS \o legal_patterns
  /\ (spc = "done" /\ result.error = "No privacy policy URL found") =>
       discovered = <<>>

\* C9: the fetches follow the ranks of the candidates, there are at most three,
\* every fetch but the last was rejected, the loop ends only on a pass or after
\* the third (or last) candidate, and the privacy_url returned after a pass is
\* the URL that passed.
C9_FetchesInRankOrderUntilFirstPass ==
  /\ Len(fetch_log) <= 3
  /\ Len(fetch_log) <= Len(found_urls)
  /\ fetch_log = Take(found_urls, Len(fetch_log))
  /\ Len(attempts) = Len(fetch_log)
  /\ \A i \in 1..(Len(attempts) - 1) : ~attempts[i]
  /\ (spc \in {"name", "done"} /\ Len(found_urls) > 0) =>
       /\ Len(attempts) > 0
       /\ \/ attempts[Len(attempts)]
          \/ Len(fetch_log) = Min(3, Len(found_urls))
  /\ (spc = "done" /\ Len(attempts) > 0 /\ attempts[Len(attempts)]) =>
       /\ result.scraped
       /\ result.privacy_url = fetch_log[Len(fetch_log)]

\* C9 witness: of four or more candidates the first was rejected, the second
\* passed, no third was fetched, and the second is the privacy_url returned.
C9_Witness ==
  /\ spc = "done"
  /\ Len(found_urls) >= 4
  /\ attempts = <<FALSE, TRUE>>
  /\ fetch_log = <<found_urls[1], found_urls[2]>>
  /\ result.privacy_url = found_urls[2]

Indicators == {"privacy", "personal data", "information", "collect", "use", "share"}

HasIndicator(text) == \E term \in Indicators : InText(term, text)

TooShort == "Content too short to be a privacy policy"

\* C10: a candidate is scraped exactly when its fetch succeeded, its text has 500
\* characters or more and the text has an indicator term; otherwise the result has
\* a non-empty error, and a text under 500 characters is reported as too short
\* whether or not it has an indicator.
C10_ScrapedIffFetchedLongAndIndicative ==
  (spc \in {"try", "name", "done"} /\ tried > 0) =>
    LET valid == /\ last_resp.kind = "ok"
                 /\ TextLen(last_resp.text) >= 500
                 /\ HasIndicator(last_resp.text)
    IN /\ Get(last_data, "scraped", None) = valid
       /\ ~valid => Get(last_data, "error", None) \notin {None, ""}
       /\ (last_resp.kind = "ok" /\ TextLen(last_resp.text) < 500) =>
            last_data.error = TooShort

\* C10 witness: a fetched text under 500 characters and without an indicator was
\* rejected as too short.
C10_Witness ==
  /\ spc \in {"try", "name", "done"} /\ tried > 0
  /\ last_resp.kind = "ok"
  /\ TextLen(last_resp.text) < 500
  /\ ~HasIndicator(last_resp.text)
  /\ last_data.scraped = FALSE
  /\ last_data.error = TooShort

(***************************************************************************)
(* C11: when every candidate the loop tried was rejected, the dict         *)
(* returned has scraped false, the error of the last attempt, no           *)
(* privacy_url, and found_urls with the whole ranked list, the candidates  *)
(* never tried included.                                                   *)
(***************************************************************************)
AllAttemptsFailed ==
  /\ spc = "done"
  /\ Len(attempts) > 0
  /\ \A i \in 1..Len(attempts) : ~attempts[i]

C11_AllFailedKeepsLastErrorAndFullList ==
  AllAttemptsFailed =>
    /\ result.scraped = FALSE
    /\ result.error = last_data.error
    /\ result.error \notin {None, ""}
    /\ result.privacy_url = None
    /\ result.found_urls = found_urls

\* Three attempts rejected, the last for being too short, and candidates left
\* untried.
C11_Witness ==
  /\ AllAttemptsFailed
  /\ Len(attempts) = 3
  /\ Len(found_urls) = 5
  /\ last_resp.kind = "ok"
  /\ result.error = TooShort
  /\ result.found_urls[5] = found_urls[5]

(***************************************************************************)
(* C12: the list _find_privacy_policy_urls returns holds no URL twice and  *)
(* has at most 5 elements.                                                 *)
(***************************************************************************)
C12_CandidatesDistinctAndAtMostFive ==
  DiscoveryDone =>
    /\ Len(found_urls) <= 5
    /\ \A i, j \in 1..Len(found_urls) : i < j => found_urls[i] # found_urls[j]

\* The known URL of discord.com is also the first path probed, the site
\* answers 200 on a path that both lists of patterns hold, and more than 5
\* URLs were discovered.
C12_Witness ==
  /\ DiscoveryDone
  /\ site = "https://discord.com"
  /\ root_kind = "ok"
  /\ discovered[1] = KNOWN_PRIVACY_URLS["discord.com"]
  /\ discovered[1] = site \o PRIVACY_URL_PATTERNS[1]
  /\ InList(site \o legal_patterns[1], discovered)
  /\ Len(discovered) > 5
  /\ Len(found_urls) = 5

(***************************************************************************)
(* C13: for the input "https://www.Example.com/" the URLs built from the   *)
(* path patterns start with the origin https://example.com.                *)
(***************************************************************************)
EndsWith(s, suffix) ==
  Len(s) >= Len(suffix) /\ SubSeq(s, Len(s) - Len(suffix) + 1, Len(s)) = suffix

\* The part of url before the path pattern it ends with.
OriginBefore(url, pattern) == SubSeq(url, 1, Len(url) - Len(pattern))

C13_ProbedOriginIsNormalized ==
  (DiscoveryDone /\ site = "https://www.Example.com/") =>
    \A i \in 1..Len(discovered) :
      (\E pattern \in AllPatterns : EndsWith(discovered[i], pattern)) =>
        \E pattern \in AllPatterns :
          /\ EndsWith(discovered[i], pattern)
          /\ OriginBefore(discovered[i], pattern) = "https://example.com"

(***************************************************************************)
(* C14: without a backend, a subject with an entry in the curated table of *)
(* harmful points gets the curated texts, from get_harmful_points and from *)
(* analyze_scraped_policy alike.                                           *)
(***************************************************************************)
\* The subject of the call in progress.
Subject ==
  IF op = "get_harmful_points" THEN args.platform
  ELSE IF op = "analyze_scraped_policy" THEN args.company_name
  ELSE None

C14_CuratedTextTakesPrecedence ==
  ( /\ op \in {"get_harmful_points", "analyze_scraped_policy"}
    /\ bedrock_client = "None"
    /\ Subject \in DOMAIN harmful_data ) =>
      /\ ret.val.harmful_points = harmful_data[Subject].harmful_points
      /\ ret.val.worst_data = harmful_data[Subject].worst_data
      /\ ret.val.recommendation = harmful_data[Subject].recommendation

(***************************************************************************)
(* C15: a chat answer that does not come from the backend names the        *)
(* platform passed to chat_with_ai, after a backend failure too, and every *)
(* question with "delete" in it gets the deletion template.                *)
(***************************************************************************)
DeletionTemplate(platform) ==
  "[phone] To delete your " \o platform
  \o " data:\n* Go to account settings\n* Look for 'Delete Account' or 'Data & Privacy'\n* Download your data first if needed\n* Note: Some data may be retained for legal purposes"

C15_DeleteRoutesToDeletionAndNamesPlatform ==
  (op = "chat_with_ai" /\ backend.kind # "text") =>
    /\ ~ret.raised
    /\ In(args.platform, ret.val.response)
    /\ In("delete", lower(args.question)) =>
         ret.val.response = DeletionTemplate(args.platform)

(***************************************************************************)
(* C16: without a backend, the answer to a question with no intent keyword *)
(* is not empty, names the platform and, when _extract_concerns reports    *)
(* concerns for the platform's policy, names one of them.                  *)
(***************************************************************************)
IntentKeywords == {"risky", "dangerous", "protect", "privacy", "delete", "share", "third party"}

ConcernLabels ==
  {"Data retained indefinitely", "Shared with advertisers", "Collects extensive personal data"}

\* The concerns _extract_concerns reports for a policy.
ReportedConcerns(policy) == {c \in ConcernLabels : In(c, _extract_concerns(policy))}

C16_CatchAllNamesPlatformAndAConcern ==
  ( /\ op = "chat_with_ai"
    /\ bedrock_client = "None"
    /\ \A kw \in IntentKeywords : ~In(kw, lower(args.question)) ) =>
      LET reported == ReportedConcerns(_load_policy(args.files, args.platform))
      IN /\ ~ret.raised
         /\ ret.val.response # ""
         /\ In(args.platform, ret.val.response)
         /\ reported # {} => \E c \in reported : In(c, ret.val.response)

(***************************************************************************)
(* C17: whenever get_harmful_points or analyze_scraped_policy returns,     *)
(* without a backend, with a backend that answers any text, or with one    *)
(* that fails, harmful_points, worst_data and recommendation are not empty.*)
(***************************************************************************)
C17_TextFieldsNeverEmpty ==
  (op \in {"get_harmful_points", "analyze_scraped_policy"} /\ ~ret.raised) =>
    /\ ret.val.harmful_points # ""
    /\ ret.val.worst_data # ""
    /\ ret.val.recommendation # ""

\* A backend answer without any section heading: the three defaults are
\* returned.
C17_Witness ==
  /\ op = "analyze_scraped_policy"
  /\ backend.kind = "text"
  /\ backend.text = "I cannot help with that."
  /\ ret.val.harmful_points = args.company_name \o " has concerning data collection and sharing practices that may impact your privacy."
  /\ ret.val.worst_data = "Personal information, usage data, and potentially sensitive behavioral data."
  /\ ret.val.recommendation # ""

(***************************************************************************)
(* C18: get_harmful_points, analyze_scraped_policy and get_generic_analysis*)
(* return dicts with the same fields: score, harmful_points, worst_data,   *)
(* recommendation, the subject's name and a tag of the path.               *)
(***************************************************************************)
AnalysisResultFields ==
  {"score", "harmful_points", "worst_data", "recommendation", "company_name", "analysis_type"}

C18_SameFieldsOnEveryPath ==
  ( /\ op \in {"get_harmful_points", "analyze_scraped_policy", "get_generic_analysis"}
    /\ ~ret.raised ) =>
      DOMAIN ret.val = AnalysisResultFields

(***************************************************************************)
(* C19: when MaxWriters concurrent save_analysis calls with the same       *)
(* non-empty company_name have all completed, none has raised and the      *)
(* analysis_count of the name is MaxWriters.                               *)
(***************************************************************************)
AllWritersDone == \A w \in Writers : wpc[w] = "done"

C19_ConcurrentWritersCountEveryCall ==
  \A name \in PlatformNames :
    (AllWritersDone /\ \A w \in Writers : company[w] = name) =>
      /\ \A w \in Writers : ~db_raised[w]
      /\ AnalysisCount(platform_stats, name) = MaxWriters

(***************************************************************************)
(* C20: the raw-text score does not decrease with the red flags: a text    *)
(* that matches the same bonus groups as the text scored and a subset of   *)
(* its penalty terms scores no more.                                       *)
(***************************************************************************)
PenaltyTerms == UNION {PenaltyGroups[g] : g \in DOMAIN PenaltyGroups}

\* The penalty terms occurring in each text, case-insensitively.
MatchedPenaltyTerms == [t \in Texts |-> {term \in PenaltyTerms : In(term, lower(t))}]

\* The score of each text.
ScoreOfText == [t \in Texts |-> _calculate_score_from_text(t)]

\* The texts with the bonus groups of t and a subset of its penalty terms.
FewerRedFlags(t) ==
  { u \in Texts : /\ MatchedBonuses[u] = MatchedBonuses[t]
                  /\ MatchedPenaltyTerms[u] \subseteq MatchedPenaltyTerms[t] }

C20_ScoreMonotoneInPenaltyTerms ==
  (op \in RawScoreOps /\ ~ret.raised) =>
    \A u \in FewerRedFlags(args.policy_text) : ScoreOfText[u] <= ret.val.score

\* A text scored above another one that has fewer penalty terms, the same
\* bonus groups, and penalty terms of its own.
C20_Witness ==
  /\ op \in RawScoreOps
  /\ ~ret.raised
  /\ MatchedBonuses[args.policy_text] # {}
  /\ \E u \in FewerRedFlags(args.policy_text) :
       /\ MatchedPenaltyTerms[u] # {}
       /\ MatchedPenaltyTerms[u] # MatchedPenaltyTerms[args.policy_text]
       /\ ScoreOfText[u] < ret.val.score

(***************************************************************************)
(* C21: structured-policy scoring starts at 70, and a policy that meets    *)
(* one bad-practice condition more than another policy (retention with     *)
(* 'indefinitely', sharing with 'advertising', more than 6 data types),    *)
(* the other conditions being the same, scores 10 to 15 less.              *)
(***************************************************************************)
\* The policies the structured methods can load.
StructuredPolicies ==
  UNION { {_load_policy(files, platform) : files \in PolicyFileSets(platform)} :
          platform \in Platforms }

\* The bad-practice conditions a policy meets, letters compared without case.
BadPractices(policy) ==
  (IF In("indefinitely", lower(Get(policy, "retention", ""))) THEN {"retention"} ELSE {})
  \cup (IF In("advertising", lower(Get(policy, "sharing", ""))) THEN {"sharing"} ELSE {})
  \cup (IF Len(Get(policy, "data_types", <<>>)) > 6 THEN {"data_types"} ELSE {})

\* The policies that meet the conditions of policy but one.
OneConditionLess(policy) ==
  { q \in StructuredPolicies :
      \E c \in BadPractices(policy) : BadPractices(q) = BadPractices(policy) \ {c} }

C21_StructuredScoreMonotone ==
  (op \in StructuredScoreOps /\ ~ret.raised) =>
    LET policy == _load_policy(args.files, args.platform)
    IN /\ BadPractices(policy) = {} => ret.val.score = 70
       /\ \A q \in OneConditionLess(policy) :
            /\ ret.val.score <= _calculate_score(q) - 10
            /\ ret.val.score >= _calculate_score(q) - 15

\* A policy with the three conditions was scored 35, 10 below a policy with
\* two of them and 15 below another.
C21_Witness ==
  /\ op \in StructuredScoreOps
  /\ ~ret.raised
  /\ BadPractices(_load_policy(args.files, args.platform)) = {"retention", "sharing", "data_types"}
  /\ ret.val.score = 35
  /\ \E q \in OneConditionLess(_load_policy(args.files, args.platform)) : _calculate_score(q) = 45
  /\ \E q \in OneConditionLess(_load_policy(args.files, args.platform)) : _calculate_score(q) = 50

(***************************************************************************)
(* C22: the concerns output is never the empty string.  When no concern    *)
(* rule matches the policy, the concerns of a summary are "No major red    *)
(* flags detected"; when no concern rule matches the text,                 *)
(* _analyze_scraped_text gives its neutral sentence, which names the       *)
(* company.                                                                *)
(***************************************************************************)
SummaryOps == {"summarize_policy", "summarize_policy_from_text"}

\* The policy whose concerns the summary in progress reports.
SummarizedPolicy ==
  IF op = "summarize_policy" THEN _load_policy(args.files, args.platform)
  ELSE [ data_types |-> ret.val.data_types,
         sharing |-> "Shares with partners and third parties",
         retention |-> "Retains data as described in policy" ]

\* The rules of _extract_concerns a policy matches.
ConcernRulesMatched(policy) ==
  (IF In("indefinitely", lower(Get(policy, "retention", ""))) THEN {"retention"} ELSE {})
  \cup (IF In("advertising", lower(Get(policy, "sharing", ""))) THEN {"sharing"} ELSE {})
  \cup (IF Len(Get(policy, "data_types", <<>>)) > 5 THEN {"data_types"} ELSE {})

NeutralSentence(company_name) ==
  company_name \o " collects personal data for business purposes. The extent of data collection and sharing practices may vary."

C22_NoConcernGivesNeutralMessage ==
  /\ (op \in SummaryOps /\ ~ret.raised) =>
       /\ ret.val.concerns # ""
       /\ ConcernRulesMatched(SummarizedPolicy) = {} =>
            ret.val.concerns = "No major red flags detected"
  /\ (op = "analyze_scraped_policy" /\ bedrock_client = "None") =>
       /\ ret.val.harmful_points # ""
       /\ MatchedPenalties[args.policy_text] = {} =>
            /\ ret.val.harmful_points = NeutralSentence(args.company_name)
            /\ In(args.company_name, ret.val.harmful_points)

\* A policy file with five data types and neither retention nor sharing was
\* summarized with the neutral message.
C22_Witness ==
  /\ op = "summarize_policy"
  /\ ~ret.raised
  /\ args.platform \in DOMAIN args.files
  /\ Len(ret.val.data_types) = 5
  /\ ConcernRulesMatched(SummarizedPolicy) = {}
  /\ ret.val.concerns = "No major red flags detected"

(***************************************************************************)
(* C23: the harmful_points of _analyze_scraped_text name at most three     *)
(* concerns: the first three matched rules in the order sell, third        *)
(* parties, tracking, location, biometric, indefinite retention, and in    *)
(* that order.                                                             *)
(***************************************************************************)
RuleOrder == <<"sell", "third", "tracking", "location", "biometric", "retention">>

ConcernPhrase == [
  sell |-> "may sell your personal data",
  third |-> "shares data with third parties",
  tracking |-> "tracks your online behavior",
  location |-> "collects location data",
  biometric |-> "collects biometric data",
  retention |-> "retains data indefinitely" ]

\* The rules a text matches, in rule order.
MatchedInOrder(text) == SelectSeq(RuleOrder, LAMBDA g : g \in MatchedPenalties[text])

\* The rules whose concern occurs in a prose.
NamedRules(prose) == {g \in DOMAIN ConcernPhrase : In(ConcernPhrase[g], prose)}

C23_ProseNamesFirstThreeConcerns ==
  (op = "analyze_scraped_policy" /\ bedrock_client = "None") =>
    LET first == Take(MatchedInOrder(args.policy_text), 3)
        prose == ret.val.harmful_points
    IN /\ Cardinality(NamedRules(prose)) <= 3
       /\ NamedRules(prose) = {first[i] : i \in 1..Len(first)}
       /\ \A i, j \in 1..Len(first) :
            i < j => Find(ConcernPhrase[first[i]], prose) < Find(ConcernPhrase[first[j]], prose)

\* A text matching five rules or more, the biometric one among them: the
\* prose names three and leaves the biometric concern out.
C23_Witness ==
  /\ op = "analyze_scraped_policy"
  /\ bedrock_client = "None"
  /\ Cardinality(MatchedPenalties[args.policy_text]) >= 5
  /\ "biometric" \in MatchedPenalties[args.policy_text]
  /\ Cardinality(NamedRules(ret.val.harmful_points)) = 3
  /\ "biometric" \notin NamedRules(ret.val.harmful_points)

(***************************************************************************)
(* C24: _extract_data_types_from_text returns the labels of the keywords   *)
(* of its table that occur in the text, letters compared without case:     *)
(* each label once, in the order of the table, the first 10 of them.       *)
(***************************************************************************)
\* The rows of the table whose keyword occurs in text.
KeywordRows(text) == {n \in 1..Len(keywords) : In(lower(keywords[n][1]), lower(text))}

\* The place of row n among the rows of S, in table order.
RowRank(n, S) == Cardinality({m \in S : m <= n})

C24_DataTypesAreMatchedLabelsInTableOrder ==
  (op = "summarize_policy_from_text" /\ ~ret.raised) =>
    LET rows == KeywordRows(args.policy_text)
        data_types == ret.val.data_types
    IN /\ Len(data_types) = Min(10, Cardinality(rows))
       /\ \A n \in rows :
            RowRank(n, rows) <= 10 => data_types[RowRank(n, rows)] = keywords[n][2]
       /\ \A i, j \in 1..Len(data_types) : i < j => data_types[i] # data_types[j]

\* A text with more than 10 keywords, the last of the table first and one
\* in capitals: 10 labels are returned, in table order.
C24_Witness ==
  /\ op = "summarize_policy_from_text"
  /\ ~ret.raised
  /\ Cardinality(KeywordRows(args.policy_text)) > 10
  /\ StartsWith(args.policy_text, "Voice")
  /\ In("PHONE", args.policy_text)
  /\ Len(ret.val.data_types) = 10
  /\ ret.val.data_types[1] = "Email Address"
  /\ ret.val.data_types[2] = "Phone Number"
  /\ ret.val.data_types[10] = "Browsing History"

(***************************************************************************)
(* C25: when the title of the root page was retrieved, the company name is *)
(* the title text before the separator that comes first in the title, or   *)
(* the full title when it has no separator; when the title was not         *)
(* retrieved, the name is the one derived from the domain.                 *)
(***************************************************************************)
\* The name derived from the domain of a URL.
DomainName(website_url) ==
  capitalize(split(replace(replace(replace(replace(urlparse(website_url).netloc,
    "www.", ""), ".com", ""), ".no", ""), ".org", ""), ".")[1])

\* The places in a title where a separator starts.
SeparatorPlaces(title_text) ==
  {Find(title_separators[i], title_text) : i \in 1..Len(title_separators)} \ {0}

\* The title text before the separator that comes first in the title.
BeforeFirstSeparator(title_text) ==
  LET places == SeparatorPlaces(title_text)
      first == CHOOSE k \in places : \A j \in places : k <= j
  IN strip(SubSeq(title_text, 1, first - 1))

C25_NameIsTitleBeforeFirstSeparator ==
  (spc = "done" /\ name_resp # NoRequest) =>
    IF name_resp.kind = "ok" /\ name_resp.title # None
    THEN LET title_text == strip(name_resp.title)
         IN IF SeparatorPlaces(title_text) # {}
            THEN result.company_name = BeforeFirstSeparator(title_text)
            ELSE result.company_name = title_text
    ELSE result.company_name = DomainName(site)

(***************************************************************************)
(* C26: for each case of the chat test, chat_with_ai does not raise and    *)
(* its answer, when it does not come from the backend, has at least one of *)
(* the keywords the test expects, letters compared without case.           *)
(***************************************************************************)
C26_ChatTestKeywordsFound ==
  (op = "chat_with_ai" /\ backend.kind # "text") =>
    \A t \in test_cases :
      (t.question = args.question /\ t.platform = args.platform) =>
        /\ ~ret.raised
        /\ \E kw \in t.expected_keywords : In(lower(kw), lower(ret.val.response))

(***************************************************************************)
(* C27: scrape_company_website never raises, whatever the string it is     *)
(* given and whatever the network does.  In the dict it returns, scraped   *)
(* true means that privacy_url is one of the first three found_urls and    *)
(* that the text has 500 to 10,000 characters, and scraped false means     *)
(* that privacy_url is None.                                               *)
(***************************************************************************)
\* What the claim says of the dict returned.
ResultIsConsistent ==
  spc = "done" =>
    /\ result.scraped =>
         /\ \E i \in 1..Min(3, Len(result.found_urls)) : result.privacy_url = result.found_urls[i]
         /\ TextLen(result.text) \in 500..10000
    /\ ~result.scraped => result.privacy_url = None

C27_ScrapeNeverRaisesAndResultIsConsistent ==
  /\ spc # "raised"
  /\ ResultIsConsistent

(***************************************************************************)
(* C28: in a summary of a structured policy the concerns and the score     *)
(* agree: a concern is reported exactly when the score is below 70, and    *)
(* every concern reported has its deduction in the score.                  *)
(***************************************************************************)
\* The deduction that goes with each concern _extract_concerns can report.
ConcernDeduction == [
  c \in ConcernLabels |->
    IF c = "Data retained indefinitely" THEN 15 ELSE 10 ]

\* The total of the deductions of a set of concerns.
RECURSIVE Deductions(_)
Deductions(S) ==
  IF S = {} THEN 0
  ELSE LET c == CHOOSE x \in S : TRUE IN ConcernDeduction[c] + Deductions(S \ {c})

C28_ConcernsAgreeWithScore ==
  (op = "summarize_policy" /\ ~ret.raised) =>
    LET flagged == {c \in ConcernLabels : In(c, ret.val.concerns)}
    IN /\ (flagged # {}) <=> (ret.val.score < 70)
       /\ ret.val.score = 70 - Deductions(flagged)

(***************************************************************************)
(* C29: the score analyze_scraped_policy returns depends on policy_text    *)
(* alone: a run on the same text returns the same score without a backend, *)
(* with a backend that fails or answers any text, and for any company_name.*)
(***************************************************************************)
\* The score of the reference run on each text: no backend, company Acme.
ReferenceScore ==
  [t \in Texts |-> analyze_scraped_policy(FALSE, NoCall, t, "Acme").val.score]

\* Every run returns the score of the reference run on its text, so any two
\* runs on one text return the same score.
C29_ScoreDependsOnTextOnly ==
  op = "analyze_scraped_policy" =>
    /\ ~ret.raised
    /\ ret.val.score = ReferenceScore[args.policy_text]

\* A run with a backend that answers, for Tinder, returned a score above the
\* base and the score of the run without a backend for Acme, whose
\* harmful_points differ.
C29_Witness ==
  /\ op = "analyze_scraped_policy"
  /\ bedrock_client = "client"
  /\ backend.kind = "text"
  /\ args.company_name = "Tinder"
  /\ ret.val.score > 30
  /\ analyze_scraped_policy(FALSE, NoCall, args.policy_text, "Acme").val.harmful_points
       # ret.val.harmful_points
  /\ ret.val.score = ReferenceScore[args.policy_text]

(***************************************************************************)
(* C30: after a sequence of save_analysis calls, one at a time, every call *)
(* has its row in analysis_history; every non-empty company_name has an    *)
(* analysis_count equal to the number of its rows in analysis_history and  *)
(* at most one row in platform_stats; the empty name has no row in         *)
(* platform_stats.                                                         *)
(***************************************************************************)
\* The number of rows of analysis_history with a company_name.
HistoryRows(company_name) ==
  Len(SelectSeq(analysis_history, LAMBDA row : row.company_name = company_name))

NoCallInProgress == \A w \in Writers : wpc[w] \in {"idle", "done"}

C30_SequentialSavesKeepCountsEqualToHistory ==
  /\ \A w \in Writers : ~db_raised[w]
  /\ \A name \in CompanyNames : Len(RowsNamed(platform_stats, name)) <= 1
  /\ RowsNamed(platform_stats, "") = <<>>
  /\ NoCallInProgress =>
       /\ \A name \in CompanyNames : HistoryRows(name) = calls[name]
       /\ \A name \in PlatformNames :
            AnalysisCount(platform_stats, name) = HistoryRows(name)

\* After four calls, two for one name with a call for the empty name in
\* between and one for another name: counts of 2 and 1, and two rows of
\* platform_stats.
C30_Witness ==
  /\ NoCallInProgress
  /\ analysis_history = <<[company_name |-> "Acme"], [company_name |-> ""],
                          [company_name |-> "Acme"], [company_name |-> "Tinder"]>>
  /\ platform_stats = <<[platform_name |-> "Acme", analysis_count |-> 2],
                        [platform_name |-> "Tinder", analysis_count |-> 1]>>

====
